---- MODULE Spec2Model ----
(***************************************************************************)
(* State-machine model of the sensor connectivity and polling subsystem of *)
(* edoxb_smart_home (backend/app): the port allocator, the WebSocket       *)
(* listener protocol, the shared MQTT connection, the polling schedulers,  *)
(* the protocol read paths, the retention store, the RAM state of an MQTT  *)
(* sensor and its periodic saving, the automation hook of the ingestion    *)
(* paths, the sensor factory, the execution of actions, the value a        *)
(* WebSocket listener retains, MQTT topic matching, one turn of the        *)
(* polling loop, and add_sensor / update_sensor with calls in flight.      *)
(*                                                                         *)
(* Every subsystem has its own group of variables and its own next-state   *)
(* relation; a specification SpecX runs subsystem X and leaves the other   *)
(* groups at their initial value.                                          *)
(***************************************************************************)
EXTENDS Integers, Sequences, FiniteSets, TLC

(***************************************************************************)
(* Bounds of the model                                                     *)
(***************************************************************************)
NumSensors == 2          \* sensor names are 1..NumSensors
NumPorts == 2            \* size of the configured port range
NumOthers == 1           \* further names that ask the PortManager for ports

SensorNames == 1..NumSensors

\* the names the PortManager hears of: the sensors and the further names
PortNames == 1..(NumSensors + NumOthers)

NoPort == 0              \* Python's None where a port is expected

(***************************************************************************)
(* State                                                                   *)
(***************************************************************************)
VARIABLES
    \* PortManager
    used_ports,      \* PortManager._used_ports
    sensor_ports,    \* PortManager._sensor_ports: name -> port or None
    os_busy,         \* ports bound by other processes of the host
    pm_ret,          \* the last PortManager call: its arguments, its outcome
                     \* and, for assign_port, the port the caller held before
    \* WebSocketProtocol
    ws,              \* name -> the fields of its WebSocketProtocol instance
    \* schedulers and registries
    impl,            \* "BL" or "SPS"
    configs,         \* name -> the configuration used for the sensor of that name
    objs,            \* sensor objects: id -> [name, enabled]
    sensors,         \* self.sensors: name -> object id, NoObj when absent
    polling_tasks,   \* self._polling_tasks: name -> task id, NoTask when absent
    running,         \* self._running
    started,         \* start_polling has been called: the application serves requests
    tasks,           \* asyncio tasks running _poll_sensor
    calls,           \* suspended coroutines of the registry and the scheduler
    removed_ok,      \* objects whose remove_sensor returned True
    sched_ret,       \* the start_/stop_sensor_polling call that has just returned
    \* MQTTProtocol
    topic_status,    \* name -> self.topic_status, as its list of segments
    mq,              \* name -> the fields of its MQTTProtocol instance
    client_entered,  \* the shared aiomqtt client is inside its context: connected
    mqtt_lock,       \* holder of MQTTProtocol._mqtt_client_lock, 0 when free
    inbox,           \* messages received and not yet taken from client.messages
    published,       \* number of messages received so far
    \* MongoClientWrapper
    clock,           \* datetime.now(), in ticks
    store,           \* the sensor_data collection
    files,           \* the export files: (sensor, day) -> [written, data]
    \* read_data
    protocol,        \* name -> the kind of self._protocol
    rp,              \* name -> connected, session, pushed data and its age
    reading,         \* name -> the last SensorData read_data returned
    \* the RAM state of one MQTTProtocol instance
    ram_topic,       \* self.topic_status, as its list of segments
    ram,             \* _ram_state, _ram_state_timestamp, last_update, connected
    now,             \* datetime.now(), in seconds
    ram_out,         \* the SensorData the last read_data returned
    ram_ev,          \* what the last step of the instance did
    latest,          \* trailing topic segment -> payload of the last message applied
    flush,           \* the _periodic_save_loop tasks and what they wrote
    \* the automation hook
    automation,      \* an AutomationService is set on the services and protocols
    ingest,          \* ingestion path -> what its loop has done so far
    \* SensorFactory
    factory,         \* the list given to create_sensors_from_configs, its result
    \* execute_sensor_action
    target,          \* the sensor the actions are asked of
    action,          \* the last call of execute_sensor_action and its outcome
    \* the retained value of a WebSocket listener
    wsd,             \* _last_data, what the sensor sent and what read_data returned
    \* topic matching
    tm,              \* a status topic, the topic of a message, what _topic_matches said
    \* one polling loop
    pl,              \* the position of a _poll_sensor task and the steps of its turn
    \* add_sensor and update_sensor, several calls in flight
    reg              \* the registry, the sensor objects and the calls

portVars == <<used_ports, sensor_ports, os_busy, pm_ret>>
wsVars == <<ws>>
pollVars == <<impl, configs, objs, sensors, polling_tasks, running, started,
              tasks, calls, removed_ok, sched_ret>>

mqttVars == <<topic_status, mq, client_entered, mqtt_lock, inbox, published>>

retVars == <<clock, store, files>>

readVars == <<protocol, rp, reading>>

ramVars == <<ram_topic, ram, now, ram_out, ram_ev, latest, flush>>

auxVars == <<automation, ingest, factory, target, action>>

extVars == <<wsd, tm, pl, reg>>

vars == <<portVars, wsVars, pollVars, mqttVars, retVars, readVars, ramVars,
          auxVars, extVars>>

\* what the steps of one subsystem leave alone
PortFrame ==
    UNCHANGED <<wsVars, pollVars, mqttVars, retVars, readVars, ramVars, auxVars,
                extVars>>
WsFrame ==
    UNCHANGED <<pollVars, mqttVars, retVars, readVars, ramVars, auxVars,
                extVars>>
PollFrame ==
    UNCHANGED <<portVars, wsVars, mqttVars, retVars, readVars, ramVars, auxVars,
                extVars>>
MqttFrame ==
    UNCHANGED <<portVars, wsVars, pollVars, retVars, readVars, ramVars, auxVars,
                extVars>>
RetFrame ==
    UNCHANGED <<portVars, wsVars, pollVars, mqttVars, readVars, ramVars, auxVars,
                extVars>>
ReadFrame ==
    UNCHANGED <<portVars, wsVars, pollVars, mqttVars, retVars, ramVars, auxVars,
                extVars>>
RamFrame ==
    UNCHANGED <<portVars, wsVars, pollVars, mqttVars, retVars, readVars, auxVars,
                extVars>>
AuxFrame ==
    UNCHANGED <<portVars, wsVars, pollVars, mqttVars, retVars, readVars, ramVars,
                extVars>>
ExtFrame ==
    UNCHANGED <<portVars, wsVars, pollVars, mqttVars, retVars, readVars, ramVars,
                auxVars>>

(***************************************************************************)
(* PortManager  (services/port_manager.py)                                 *)
(***************************************************************************)
PortMin == 9000
PortMax == PortMin + NumPorts - 1
PortRange == PortMin..PortMax
\* ports a caller may ask for explicitly: the range and one port on each side
RequestablePorts == (PortMin - 1)..(PortMax + 1)

PortInit ==
    /\ used_ports = {}
    /\ sensor_ports = [n \in PortNames |-> NoPort]
    /\ os_busy = {}
    /\ pm_ret = [op |-> "none", name |-> 0, req |-> NoPort, ok |-> TRUE,
                 port |-> NoPort, old |-> NoPort]

\* _check_port_free: an OS-level bind of the port succeeds
_check_port_free(busy, port) == port \notin busy

\* is_port_available without the check of the ports held internally
is_port_available_NoHeldCheck(used, busy, port) == _check_port_free(busy, port)

\* the ports reserved by connect() calls that are still suspended
InFlightPorts == {ws[m].port : m \in {k \in SensorNames : ws[k].cpc = "sleep"}} \ {NoPort}

\* is_port_available reading the used ports as they were before the
\* reservations of the calls in flight
is_port_available_StaleView(used, busy, port) ==
    IF port \in used \ InFlightPorts THEN FALSE ELSE _check_port_free(busy, port)

\* is_port_available: not held internally and bindable
is_port_available(used, busy, port) ==
    IF port \in used THEN FALSE ELSE _check_port_free(busy, port)

\* release_port as a function of the allocator state
ReleasedUsed(used, map, name) ==
    IF map[name] # NoPort THEN used \ {map[name]} ELSE used

ReleasedMap(map, name) ==
    IF map[name] # NoPort THEN [map EXCEPT ![name] = NoPort] ELSE map

\* the ports of the range that auto-assignment may take, without the bind
\* probe
FreeRangePorts_NoProbe(used, busy) == {p \in PortRange : p \notin used}

\* the ports of the range that auto-assignment may take, without the test
\* of the ports held
FreeRangePorts_NoHeld(used, busy) ==
    {p \in PortRange : _check_port_free(busy, p)}

\* the ports of the range that auto-assignment may take, given the state
\* after the caller's own port was released
FreeRangePorts(used, busy) ==
    {p \in PortRange : is_port_available(used, busy, p)}

MinOf(S) == CHOOSE x \in S : \A y \in S : x <= y

\* assign_port without the release of the port the caller holds
assign_port_KeepsOld(used, map, busy, name, req) ==
    IF req # NoPort
    THEN IF ~is_port_available(used, busy, req)
         THEN [used |-> used, map |-> map, ok |-> FALSE, port |-> NoPort]
         ELSE [used |-> used \cup {req},
               map |-> [map EXCEPT ![name] = req],
               ok |-> TRUE, port |-> req]
    ELSE IF FreeRangePorts(used, busy) # {}
         THEN LET p == MinOf(FreeRangePorts(used, busy))
              IN [used |-> used \cup {p},
                  map |-> [map EXCEPT ![name] = p],
                  ok |-> TRUE, port |-> p]
         ELSE [used |-> used, map |-> map, ok |-> FALSE, port |-> NoPort]

\* assign_port(sensor_name, requested_port): the allocator state after the
\* call and its result (ok with the port, or not ok: ValueError raised)
assign_port(used, map, busy, name, req) ==
    LET u1 == ReleasedUsed(used, map, name)
        m1 == ReleasedMap(map, name)
    IN  IF req # NoPort
        THEN IF ~is_port_available(u1, busy, req)
             THEN [used |-> u1, map |-> m1, ok |-> FALSE, port |-> NoPort]
             ELSE [used |-> u1 \cup {req},
                   map |-> [m1 EXCEPT ![name] = req],
                   ok |-> TRUE, port |-> req]
        ELSE IF FreeRangePorts(u1, busy) # {}
             THEN LET p == MinOf(FreeRangePorts(u1, busy))
                  IN [used |-> u1 \cup {p},
                      map |-> [m1 EXCEPT ![name] = p],
                      ok |-> TRUE, port |-> p]
             ELSE [used |-> u1, map |-> m1, ok |-> FALSE, port |-> NoPort]

\* PortManager.assign_port called directly
AssignPort(name, req) ==
    LET r == assign_port(used_ports, sensor_ports, os_busy, name, req)
    IN  /\ used_ports' = r.used
        /\ sensor_ports' = r.map
        /\ pm_ret' = [op |-> "assign", name |-> name, req |-> req,
                      ok |-> r.ok, port |-> r.port,
                      old |-> sensor_ports[name]]
        /\ UNCHANGED os_busy
        /\ PortFrame

\* PortManager.release_port called directly
ReleasePort(name) ==
    /\ used_ports' = ReleasedUsed(used_ports, sensor_ports, name)
    /\ sensor_ports' = ReleasedMap(sensor_ports, name)
    /\ pm_ret' = [op |-> "release", name |-> name, req |-> NoPort,
                  ok |-> TRUE, port |-> NoPort, old |-> NoPort]
    /\ UNCHANGED os_busy
    /\ PortFrame

\* another process of the host binds or frees a port
OsBind(port) ==
    /\ port \notin os_busy
    /\ os_busy' = os_busy \cup {port}
    /\ UNCHANGED <<used_ports, sensor_ports, pm_ret>>
    /\ PortFrame

OsFree(port) ==
    /\ port \in os_busy
    /\ os_busy' = os_busy \ {port}
    /\ UNCHANGED <<used_ports, sensor_ports, pm_ret>>
    /\ PortFrame

PortNext ==
    \/ \E n \in PortNames, r \in RequestablePorts \cup {NoPort} : AssignPort(n, r)
    \/ \E n \in PortNames : ReleasePort(n)
    \/ \E p \in RequestablePorts : OsBind(p)
    \/ \E p \in RequestablePorts : OsFree(p)

(***************************************************************************)
(* WebSocketProtocol  (protocols/websocket_protocol.py)                    *)
(* One listener protocol per sensor name, all sharing the PortManager.     *)
(***************************************************************************)
NumClients == 1          \* clients that may attach to one listener
Clients == 1..NumClients

\* config.port of the WebSocket sensors: none, or the first port of the range
WsRequestable == {NoPort, PortMin}

\* WebSocketProtocol.__init__
WsNew(req) ==
    [requested |-> req,        \* _requested_port
     port |-> NoPort,          \* port
     connected |-> FALSE,      \* connected
     task |-> "none",          \* _server_task: none, scheduled, serving,
                               \*   cancel_req, done
     server |-> FALSE,         \* _server is set
     listen |-> NoPort,        \* port the listening socket is bound to
     clients |-> {},           \* _connected_clients
     cpc |-> "idle",           \* position of a running connect()
     dpc |-> "idle",           \* position of a running disconnect()
     ret |-> "none",           \* what the last connect() returned
     bind_failed |-> FALSE]    \* the listener of the last connect() got OSError

WsInit == ws \in [SensorNames -> {WsNew(r) : r \in WsRequestable}]

\* ports on which a listener of this process is bound
OwnListening == {ws[n].listen : n \in SensorNames} \ {NoPort}

\* the bind probe of the allocator and the bind of a listener both fail on a
\* port bound by another process or by a listener of this process
OsBusy == os_busy \cup OwnListening

\* _server_task is None or _server_task.done()
TaskFinished(w) == w.task \in {"none", "done"}

\* is_connected reduced to the connected flag
is_connected_FlagOnly(w) == w.connected

\* is_connected: the flag is set, the listener task exists and is not done,
\* and there is a client in _connected_clients
is_connected(w) ==
    /\ w.connected
    /\ w.task # "none"
    /\ w.task # "done"
    /\ Cardinality(w.clients) > 0

\* connect(), up to its first suspension (asyncio.sleep) or its return
WsConnectBegin(n) ==
    LET w == ws[n]
        r == assign_port(used_ports, sensor_ports, OsBusy, n, w.requested)
    IN  /\ w.cpc = "idle"
        /\ IF TaskFinished(w)
           THEN IF w.port = NoPort
                THEN /\ used_ports' = r.used
                     /\ sensor_ports' = r.map
                     /\ IF r.ok
                        THEN ws' = [ws EXCEPT ![n] =
                                 [w EXCEPT !.port = r.port, !.task = "scheduled",
                                           !.cpc = "sleep", !.bind_failed = FALSE]]
                        \* RuntimeError from _assign_port: the except branch
                        ELSE ws' = [ws EXCEPT ![n] =
                                 [w EXCEPT !.connected = FALSE, !.ret = "false",
                                           !.bind_failed = FALSE]]
                ELSE /\ ws' = [ws EXCEPT ![n] =
                                 [w EXCEPT !.task = "scheduled", !.cpc = "sleep",
                                           !.bind_failed = FALSE]]
                     /\ UNCHANGED <<used_ports, sensor_ports>>
           ELSE /\ ws' = [ws EXCEPT ![n] =
                            [w EXCEPT !.ret = IF w.connected THEN "true" ELSE "false"]]
                /\ UNCHANGED <<used_ports, sensor_ports>>
        /\ UNCHANGED <<os_busy, pm_ret>> /\ WsFrame

\* connect() after the sleep: connected = True; return True
ConnectResumed(w) == [w EXCEPT !.connected = TRUE, !.ret = "true", !.cpc = "idle"]

\* The listener task is ready as soon as it is created, the sleep of connect()
\* lasts 0.1 s: the task has bound its port, or failed to, when connect() resumes.
WsConnectEnd(n) ==
    /\ ws[n].cpc = "sleep"
    /\ ws[n].task # "scheduled"
    /\ ws' = [ws EXCEPT ![n] = ConnectResumed(ws[n])]
    /\ UNCHANGED portVars /\ WsFrame

\* _release_port
WsReleased(w) == [w EXCEPT !.port = NoPort]

\* _start_server, from the start of the task to its wait on the Future, or
\* to its end when the port is missing or the bind fails
WsServerStart(n) ==
    LET w == ws[n] IN
    /\ w.task = "scheduled"
    /\ IF w.port = NoPort
       THEN \* RuntimeError raised before the try block
            /\ ws' = [ws EXCEPT ![n] = [w EXCEPT !.task = "done"]]
            /\ UNCHANGED <<used_ports, sensor_ports>>
       ELSE IF w.port \notin OsBusy
       THEN /\ ws' = [ws EXCEPT ![n] =
                        [w EXCEPT !.task = "serving", !.server = TRUE,
                                  !.listen = w.port]]
            /\ UNCHANGED <<used_ports, sensor_ports>>
       ELSE \* OSError: connected = False, release the port, re-raise
            /\ ws' = [ws EXCEPT ![n] =
                        WsReleased([w EXCEPT !.task = "done", !.connected = FALSE,
                                             !.bind_failed = TRUE])]
            /\ used_ports' = ReleasedUsed(used_ports, sensor_ports, n)
            /\ sensor_ports' = ReleasedMap(sensor_ports, n)
    /\ UNCHANGED <<os_busy, pm_ret>> /\ WsFrame

\* the listener task receives the cancellation requested by disconnect():
\* the server context is left, the task ends
WsServerCancelled(n) ==
    /\ ws[n].task = "cancel_req"
    /\ ws' = [ws EXCEPT ![n] = [@ EXCEPT !.task = "done", !.listen = NoPort]]
    /\ UNCHANGED portVars /\ WsFrame

\* _handle_client: a client with the configured path attaches
WsClientAttach(n, c) ==
    /\ ws[n].task = "serving"
    /\ ws[n].listen # NoPort
    /\ c \notin ws[n].clients
    /\ ws' = [ws EXCEPT ![n] = [@ EXCEPT !.clients = @ \cup {c}]]
    /\ UNCHANGED portVars /\ WsFrame

\* _handle_client, finally block: the client is gone
WsClientDetach(n, c) ==
    /\ c \in ws[n].clients
    /\ ws' = [ws EXCEPT ![n] =
                [@ EXCEPT !.clients = @ \ {c},
                          !.connected = IF ws[n].clients = {c} THEN FALSE ELSE @]]
    /\ UNCHANGED portVars /\ WsFrame

\* disconnect(), last part, without _release_port()
DiscFinal_KeepsPort(w) ==
    [w |-> [w EXCEPT !.task = "none", !.dpc = "idle"], release |-> FALSE]

\* disconnect(), last part: _server_task = None and _release_port()
DiscFinal(w) ==
    [w |-> WsReleased([w EXCEPT !.task = "none", !.dpc = "idle"]),
     release |-> w.port # NoPort]

\* disconnect(), from the check of the listener task
DiscTask(w) ==
    IF ~TaskFinished(w)
    THEN [w |-> [w EXCEPT !.task = "cancel_req", !.dpc = "await_task"],
          release |-> FALSE]
    ELSE DiscFinal(w)

\* disconnect(), from the check of the server
DiscServer(w) ==
    IF w.server
    THEN [w |-> [w EXCEPT !.listen = NoPort, !.clients = {},
                          !.dpc = "wait_closed"],
          release |-> FALSE]
    ELSE DiscTask(w)

\* disconnect(), from its start
DiscStart(w) ==
    LET w1 == [w EXCEPT !.connected = FALSE]
    IN  IF w1.clients # {}
        THEN [w |-> [w1 EXCEPT !.dpc = "close_clients"], release |-> FALSE]
        ELSE DiscServer(w1)

\* disconnect(), resumed after one of its waits
DiscResume(w) ==
    CASE w.dpc = "close_clients" -> DiscServer([w EXCEPT !.clients = {}])
      [] w.dpc = "wait_closed" -> DiscTask([w EXCEPT !.server = FALSE])
      [] w.dpc = "await_task" -> DiscFinal(w)

WsApplyDisc(n, d) ==
    /\ ws' = [ws EXCEPT ![n] = d.w]
    /\ used_ports' = IF d.release THEN ReleasedUsed(used_ports, sensor_ports, n)
                     ELSE used_ports
    /\ sensor_ports' = IF d.release THEN ReleasedMap(sensor_ports, n)
                       ELSE sensor_ports
    /\ UNCHANGED <<os_busy, pm_ret>> /\ WsFrame

WsDisconnectBegin(n) ==
    /\ ws[n].dpc = "idle"
    /\ WsApplyDisc(n, DiscStart(ws[n]))

WsDisconnectStep(n) ==
    /\ ws[n].dpc # "idle"
    /\ ws[n].dpc = "await_task" => ws[n].task = "done"
    /\ WsApplyDisc(n, DiscResume(ws[n]))

WsNext ==
    \/ \E n \in SensorNames : WsConnectBegin(n)
    \/ \E n \in SensorNames : WsConnectEnd(n)
    \/ \E n \in SensorNames : WsServerStart(n)
    \/ \E n \in SensorNames : WsServerCancelled(n)
    \/ \E n \in SensorNames, c \in Clients : WsClientAttach(n, c)
    \/ \E n \in SensorNames, c \in Clients : WsClientDetach(n, c)
    \/ \E n \in SensorNames : WsDisconnectBegin(n)
    \/ \E n \in SensorNames : WsDisconnectStep(n)
    \/ \E p \in PortRange : OsBind(p)
    \/ \E p \in PortRange : OsFree(p)

(***************************************************************************)
(* Polling schedulers and sensor registries                                *)
(*   BusinessLogic                (services/business_logic.py)             *)
(*   SensorPollingService         (services/sensor_polling_service.py)     *)
(*   SensorManagementService      (services/sensor_management_service.py)  *)
(* impl says which of the two implementations runs over the sensors map:   *)
(* "BL" is BusinessLogic with its built-in scheduler, "SPS" is             *)
(* SensorManagementService with SensorPollingService.                      *)
(***************************************************************************)
MaxTasks == 2            \* asyncio tasks that exist at the same time
MaxObjs == 2
MaxCalls == 1

TaskIds == 1..MaxTasks
ObjIds == 1..MaxObjs
CallIds == 1..MaxCalls
NoTask == 0
NoObj == 0
NoSchedCall == [op |-> "none", name |-> 0]

\* the configurations a sensor may have: poll_interval (0 stands for None
\* or 0) and the name of its protocol class
PollConfigs ==
    {[interval |-> 5, proto |-> "HTTPProtocol"],
     [interval |-> 0, proto |-> "HTTPProtocol"],
     [interval |-> 5, proto |-> "MQTTProtocol"]}

FreeTask == [st |-> "free", obj |-> NoObj, name |-> 0, cancel |-> FALSE]
IdleCall == [op |-> "idle", name |-> 0, pc |-> "idle", obj |-> NoObj,
             awaited |-> {}]

\* SensorFactory.create_sensor accepts only enabled configurations, so a
\* sensor object starts enabled
PollInit ==
    /\ impl \in {"BL", "SPS"}
    /\ configs \in [SensorNames -> PollConfigs]
    /\ configs[1].interval > 0 /\ configs[1].proto = "HTTPProtocol"
    /\ objs = [o \in ObjIds |->
                 IF o \in SensorNames THEN [name |-> o, enabled |-> TRUE]
                 ELSE [name |-> 0, enabled |-> FALSE]]
    /\ sensors = [n \in SensorNames |-> n]
    /\ polling_tasks = [n \in SensorNames |-> NoTask]
    /\ running = FALSE
    /\ started = FALSE
    /\ tasks = [t \in TaskIds |-> FreeTask]
    /\ calls = [c \in CallIds |-> IdleCall]
    /\ removed_ok = {}
    /\ sched_ret = NoSchedCall

\* a task that was spawned and has not terminated
TaskActive(tk) == tk.st \notin {"free", "done"}
TaskTerminated(tk) == ~TaskActive(tk)

ActiveTasks == {t \in TaskIds : TaskActive(tasks[t])}

FreeTaskIds(ts) == {t \in TaskIds : ts[t].st = "free"}

\* asyncio.create_task(self._poll_sensor(name, sensor))
NewTask(name, o) ==
    [st |-> "created", obj |-> o, name |-> name, cancel |-> FALSE]

\* the table loses its reference to task t: a finished task disappears
Unreferenced(ts, t) ==
    IF t # NoTask /\ ts[t].st = "done" THEN [ts EXCEPT ![t] = FreeTask] ELSE ts

\* task.cancel(): a request, served when the task runs next
Cancelled(ts, t) ==
    IF TaskActive(ts[t]) THEN [ts EXCEPT ![t].cancel = TRUE] ELSE ts

\* the sensors start_polling gives a task to
\* BusinessLogic.start_polling: every enabled sensor
\* SensorPollingService.start_polling: enabled, not MQTT, positive interval
Scheduled(n) ==
    /\ sensors[n] # NoObj
    /\ objs[sensors[n]].enabled
    /\ impl = "SPS" =>
          /\ configs[n].proto # "MQTTProtocol"
          /\ configs[n].interval > 0

RECURSIVE SpawnAll(_, _, _)
\* the loop of start_polling over the names in todo: one new task per name,
\* stored in the table over whatever the table held
SpawnAll(todo, ts, table) ==
    IF todo = {} THEN [tasks |-> ts, table |-> table]
    ELSE LET n == MinOf(todo)
             t == MinOf(FreeTaskIds(ts))
         IN  SpawnAll(todo \ {n},
                      [Unreferenced(ts, table[n]) EXCEPT ![t] = NewTask(n, sensors[n])],
                      [table EXCEPT ![n] = t])

NoCallOf(op) == \A c \in CallIds : calls[c].op # op

\* start_polling, called when the scheduler is stopped (application start)
StartPolling ==
    LET todo == {n \in SensorNames : Scheduled(n)}
        r == SpawnAll(todo, tasks, polling_tasks)
    IN  /\ ~running
        /\ NoCallOf("stop_polling")
        /\ Cardinality(FreeTaskIds(tasks)) >= Cardinality(todo)
        /\ running' = TRUE
        /\ started' = TRUE
        /\ tasks' = r.tasks
        /\ polling_tasks' = r.table
        /\ PollFrame
        /\ sched_ret' = NoSchedCall
        /\ UNCHANGED <<impl, configs, objs, sensors, calls, removed_ok>>

FreeCallIds == {c \in CallIds : calls[c].op = "idle"}

TableTasks == {polling_tasks[n] : n \in SensorNames} \ {NoTask}

RECURSIVE CancelAll(_, _)
CancelAll(ids, ts) ==
    IF ids = {} THEN ts
    ELSE LET t == MinOf(ids) IN CancelAll(ids \ {t}, Cancelled(ts, t))

\* stop_polling up to its wait: _running = False, cancel every task of the
\* table, gather them
StopPollingBegin ==
    /\ running
    /\ NoCallOf("stop_polling")
    /\ FreeCallIds # {}
    /\ running' = FALSE
    /\ tasks' = CancelAll(TableTasks, tasks)
    /\ calls' = [calls EXCEPT ![MinOf(FreeCallIds)] =
                    [IdleCall EXCEPT !.op = "stop_polling", !.pc = "gather",
                                     !.awaited = TableTasks]]
    /\ PollFrame
    /\ sched_ret' = NoSchedCall
    /\ UNCHANGED <<impl, started, configs, objs, sensors, polling_tasks, removed_ok>>

RECURSIVE UnreferenceAll(_, _)
UnreferenceAll(ids, ts) ==
    IF ids = {} THEN ts
    ELSE LET t == MinOf(ids) IN UnreferenceAll(ids \ {t}, Unreferenced(ts, t))

\* stop_polling after the gather: _polling_tasks.clear(), return
StopPollingEnd(c) ==
    /\ calls[c].op = "stop_polling"
    /\ \A t \in calls[c].awaited : TaskTerminated(tasks[t])
    /\ polling_tasks' = [n \in SensorNames |-> NoTask]
    /\ tasks' = UnreferenceAll(TableTasks \cup calls[c].awaited, tasks)
    /\ calls' = [calls EXCEPT ![c] = IdleCall]
    /\ PollFrame
    /\ sched_ret' = NoSchedCall
    /\ UNCHANGED <<impl, started, configs, objs, sensors, running, removed_ok>>

\* a finished task stays in the task set only while the table refers to it
Ended(ts, t) ==
    IF t \in TableTasks \/ \E c \in CallIds : t \in calls[c].awaited
    THEN [ts EXCEPT ![t].st = "done"]
    ELSE [ts EXCEPT ![t] = FreeTask]

\* while self._running and sensor.enabled
LoopCondition(tk) == running /\ objs[tk.obj].enabled

\* _poll_sensor from its start to the first read_data, or to its return
\* SensorPollingService returns at once when poll_interval is None or 0
PollStarted(ts, t) ==
    IF impl = "SPS" /\ configs[ts[t].name].interval = 0 THEN Ended(ts, t)
    ELSE IF LoopCondition(ts[t]) THEN [ts EXCEPT ![t].st = "reading"]
    ELSE Ended(ts, t)

\* the body after read_data, with an exception of the body ending the loop
BodyDone_ExceptionEndsLoop(ts, t, raises) ==
    IF raises THEN Ended(ts, t) ELSE [ts EXCEPT ![t].st = "sleeping"]

\* the body after read_data: it reaches the sleep, or an exception escapes
\* it and the except branch sleeps
BodyDone(ts, t, raises) ==
    IF raises THEN [ts EXCEPT ![t].st = "retry_sleep"]
    ELSE [ts EXCEPT ![t].st = "sleeping"]

\* the end of a sleep: the loop condition is tested again
Woken(ts, t) ==
    IF LoopCondition(ts[t]) THEN [ts EXCEPT ![t].st = "reading"]
    ELSE Ended(ts, t)

\* one step of a polling task, from one suspension to the next; a task with
\* a pending cancellation gets CancelledError instead and ends
TaskStep(t) ==
    /\ TaskActive(tasks[t])
    /\ IF tasks[t].cancel
       THEN tasks' = Ended(tasks, t)
       ELSE \/ /\ tasks[t].st = "created"
               /\ tasks' = PollStarted(tasks, t)
            \/ /\ tasks[t].st = "reading"
               /\ \E raises \in BOOLEAN : tasks' = BodyDone(tasks, t, raises)
            \/ /\ tasks[t].st \in {"sleeping", "retry_sleep"}
               /\ tasks' = Woken(tasks, t)
    /\ PollFrame
    /\ sched_ret' = NoSchedCall
    /\ UNCHANGED <<impl, started, configs, objs, sensors, polling_tasks, running, calls,
                   removed_ok>>

\* the model has a task to give when the call spawns one
CanSpawn(ts, table, name) ==
    (running /\ table[name] = NoTask) => FreeTaskIds(ts) # {}

\* the spawn of enable_sensor / start_sensor_polling:
\* if self._running and name not in self._polling_tasks
SpawnIfAbsent(ts, table, name) ==
    IF running /\ table[name] = NoTask
    THEN LET t == MinOf(FreeTaskIds(ts))
         IN [tasks |-> [ts EXCEPT ![t] = NewTask(name, sensors[name])],
             table |-> [table EXCEPT ![name] = t]]
    ELSE [tasks |-> ts, table |-> table]

\* the stop of disable_sensor / stop_sensor_polling:
\* if name in self._polling_tasks: cancel it and delete the entry
CancelAndForget(ts, table, name) ==
    IF table[name] # NoTask
    THEN [tasks |-> Unreferenced(Cancelled(ts, table[name]), table[name]),
          table |-> [table EXCEPT ![name] = NoTask]]
    ELSE [tasks |-> ts, table |-> table]

\* BusinessLogic.enable_sensor
BLEnableSensor(name) ==
    LET r == SpawnIfAbsent(tasks, polling_tasks, name)
    IN  /\ impl = "BL" /\ started
        /\ CanSpawn(tasks, polling_tasks, name)
        /\ IF sensors[name] = NoObj
           THEN UNCHANGED <<objs, tasks, polling_tasks>>
           ELSE /\ objs' = [objs EXCEPT ![sensors[name]].enabled = TRUE]
                /\ tasks' = r.tasks
                /\ polling_tasks' = r.table
        /\ PollFrame
        /\ sched_ret' = NoSchedCall
        /\ UNCHANGED <<impl, started, configs, sensors, running, calls, removed_ok>>

\* BusinessLogic.disable_sensor
BLDisableSensor(name) ==
    LET r == CancelAndForget(tasks, polling_tasks, name)
    IN  /\ impl = "BL" /\ started
        /\ IF sensors[name] = NoObj
           THEN UNCHANGED <<objs, tasks, polling_tasks>>
           ELSE /\ objs' = [objs EXCEPT ![sensors[name]].enabled = FALSE]
                /\ tasks' = r.tasks
                /\ polling_tasks' = r.table
        /\ PollFrame
        /\ sched_ret' = NoSchedCall
        /\ UNCHANGED <<impl, started, configs, sensors, running, calls, removed_ok>>

\* SensorManagementService.enable_sensor / disable_sensor: the flag only
SMSSetEnabled(name, flag) ==
    /\ impl = "SPS" /\ started
    /\ IF sensors[name] = NoObj
       THEN UNCHANGED objs
       ELSE objs' = [objs EXCEPT ![sensors[name]].enabled = flag]
    /\ PollFrame
    /\ sched_ret' = NoSchedCall
    /\ UNCHANGED <<impl, started, configs, sensors, polling_tasks, running, tasks, calls,
                   removed_ok>>

\* SensorPollingService.start_sensor_polling(name, self.sensors[name])
SPSStartSensorPolling(name) ==
    LET r == SpawnIfAbsent(tasks, polling_tasks, name)
    IN  /\ impl = "SPS" /\ started
        /\ sensors[name] # NoObj
        /\ CanSpawn(tasks, polling_tasks, name)
        /\ tasks' = r.tasks
        /\ polling_tasks' = r.table
        /\ PollFrame
        /\ sched_ret' = [op |-> "start_sensor_polling", name |-> name]
        /\ UNCHANGED <<impl, started, configs, objs, sensors, running, calls, removed_ok>>

\* SensorPollingService.stop_sensor_polling(name)
SPSStopSensorPolling(name) ==
    LET r == CancelAndForget(tasks, polling_tasks, name)
    IN  /\ impl = "SPS" /\ started
        /\ tasks' = r.tasks
        /\ polling_tasks' = r.table
        /\ PollFrame
        /\ sched_ret' = [op |-> "stop_sensor_polling", name |-> name]
        /\ UNCHANGED <<impl, started, configs, objs, sensors, running, calls, removed_ok>>

\* the scheduler with enable / disable requests
SchedNext ==
    \/ StartPolling
    \/ StopPollingBegin
    \/ \E c \in CallIds : StopPollingEnd(c)
    \/ \E t \in TaskIds : TaskStep(t)
    \/ \E n \in SensorNames : BLEnableSensor(n)
    \/ \E n \in SensorNames : BLDisableSensor(n)
    \/ \E n \in SensorNames, f \in BOOLEAN : SMSSetEnabled(n, f)
    \/ \E n \in SensorNames : SPSStartSensorPolling(n)
    \/ \E n \in SensorNames : SPSStopSensorPolling(n)

\* the sensor objects something still refers to
LiveObjs ==
    {sensors[n] : n \in SensorNames}
       \cup {tasks[t].obj : t \in TaskIds}
       \cup {calls[c].obj : c \in CallIds}

FreeObjIds == ObjIds \ LiveObjs

\* a call that returns: its slot is free again, the finished tasks it
\* waited for disappear unless the table refers to them
Returned(c) == [calls EXCEPT ![c] = IdleCall]

ForgetAwaited(ts, c, table) ==
    UnreferenceAll({t \in calls[c].awaited : \A n \in SensorNames : table[n] # t}, ts)

\* BusinessLogic.remove_sensor up to its first wait: the task of the sensor
\* is cancelled and gathered, or, without a task, the sensor is disconnected
BLRemoveBegin(name) ==
    /\ impl = "BL" /\ started
    /\ sensors[name] # NoObj
    /\ FreeCallIds # {}
    /\ IF polling_tasks[name] # NoTask
       THEN /\ tasks' = Cancelled(tasks, polling_tasks[name])
            /\ calls' = [calls EXCEPT ![MinOf(FreeCallIds)] =
                            [IdleCall EXCEPT !.op = "remove_sensor", !.name = name,
                                             !.pc = "gather",
                                             !.awaited = {polling_tasks[name]}]]
       ELSE /\ calls' = [calls EXCEPT ![MinOf(FreeCallIds)] =
                            [IdleCall EXCEPT !.op = "remove_sensor", !.name = name,
                                             !.pc = "disconnect",
                                             !.obj = sensors[name]]]
            /\ UNCHANGED tasks
    /\ PollFrame
    /\ sched_ret' = NoSchedCall
    /\ UNCHANGED <<impl, started, configs, objs, sensors, polling_tasks, running, removed_ok>>

\* BusinessLogic.remove_sensor after the gather: del self._polling_tasks[name]
\* and sensor = self.sensors[name], each a KeyError (return False) when the
\* entry is gone; then the wait for sensor.disconnect()
BLRemoveAfterGather(c) ==
    LET name == calls[c].name
        table == [polling_tasks EXCEPT ![name] = NoTask]
    IN  /\ calls[c].op = "remove_sensor" /\ calls[c].pc = "gather"
        /\ \A t \in calls[c].awaited : TaskTerminated(tasks[t])
        /\ IF polling_tasks[name] = NoTask
           THEN /\ calls' = Returned(c)
                /\ tasks' = ForgetAwaited(tasks, c, polling_tasks)
                /\ UNCHANGED polling_tasks
           ELSE /\ polling_tasks' = table
                /\ tasks' = ForgetAwaited(Unreferenced(tasks, polling_tasks[name]),
                                          c, table)
                /\ IF sensors[name] = NoObj
                   THEN calls' = Returned(c)
                   ELSE calls' = [calls EXCEPT ![c] =
                                     [@ EXCEPT !.pc = "disconnect", !.awaited = {},
                                               !.obj = sensors[name]]]
        /\ PollFrame
        /\ sched_ret' = NoSchedCall
        /\ UNCHANGED <<impl, started, configs, objs, sensors, running, removed_ok>>

\* SensorManagementService.remove_sensor up to its wait for
\* sensor.disconnect(): the scheduler is not told
SMSRemoveBegin(name) ==
    /\ impl = "SPS" /\ started
    /\ sensors[name] # NoObj
    /\ FreeCallIds # {}
    /\ calls' = [calls EXCEPT ![MinOf(FreeCallIds)] =
                    [IdleCall EXCEPT !.op = "remove_sensor", !.name = name,
                                     !.pc = "disconnect", !.obj = sensors[name]]]
    /\ PollFrame
    /\ sched_ret' = NoSchedCall
    /\ UNCHANGED <<impl, started, configs, objs, sensors, polling_tasks, running, tasks,
                   removed_ok>>

\* remove_sensor after sensor.disconnect(): del self.sensors[name] (KeyError,
\* return False, when the name is gone), then the wait for the database
RemoveAfterDisconnect(c) ==
    LET name == calls[c].name IN
    /\ calls[c].op = "remove_sensor" /\ calls[c].pc = "disconnect"
    /\ IF sensors[name] = NoObj
       THEN /\ calls' = Returned(c)
            /\ UNCHANGED sensors
       ELSE /\ sensors' = [sensors EXCEPT ![name] = NoObj]
            /\ calls' = [calls EXCEPT ![c] = [@ EXCEPT !.pc = "db"]]
    /\ PollFrame
    /\ sched_ret' = NoSchedCall
    /\ UNCHANGED <<impl, started, configs, objs, polling_tasks, running, tasks, removed_ok>>

\* remove_sensor after delete_sensor_config: return True
RemoveReturnsTrue(c) ==
    /\ calls[c].op = "remove_sensor" /\ calls[c].pc = "db"
    /\ removed_ok' = removed_ok \cup {calls[c].obj}
    /\ calls' = Returned(c)
    /\ PollFrame
    /\ sched_ret' = NoSchedCall
    /\ UNCHANGED <<impl, started, configs, objs, sensors, polling_tasks, running, tasks>>

\* add_sensor up to its wait for save_sensor_config; a name that is in the
\* registry is refused
AddBegin(name) ==
    /\ started
    /\ sensors[name] = NoObj
    /\ FreeCallIds # {}
    /\ calls' = [calls EXCEPT ![MinOf(FreeCallIds)] =
                    [IdleCall EXCEPT !.op = "add_sensor", !.name = name,
                                     !.pc = "save"]]
    /\ PollFrame
    /\ sched_ret' = NoSchedCall
    /\ UNCHANGED <<impl, started, configs, objs, sensors, polling_tasks, running, tasks,
                   removed_ok>>

\* add_sensor after the save: the sensor is created and put in the registry
\* under its name, then connected
AddAfterSave(c) ==
    LET name == calls[c].name
        o == MinOf(FreeObjIds)
    IN  /\ calls[c].op = "add_sensor" /\ calls[c].pc = "save"
        /\ FreeObjIds # {}
        /\ objs' = [objs EXCEPT ![o] = [name |-> name, enabled |-> TRUE]]
        /\ sensors' = [sensors EXCEPT ![name] = o]
        /\ removed_ok' = removed_ok \ {o}
        /\ calls' = [calls EXCEPT ![c] = [@ EXCEPT !.pc = "connect", !.obj = o]]
        /\ PollFrame
        /\ sched_ret' = NoSchedCall
        /\ UNCHANGED <<impl, started, configs, polling_tasks, running, tasks>>

\* add_sensor after sensor.connect(): BusinessLogic starts the polling of the
\* new sensor when the scheduler runs; return True
AddAfterConnect(c) ==
    LET name == calls[c].name
        t == MinOf(FreeTaskIds(tasks))
    IN  /\ calls[c].op = "add_sensor" /\ calls[c].pc = "connect"
        /\ IF impl = "BL" /\ running
           THEN /\ FreeTaskIds(tasks) # {}
                /\ tasks' = [Unreferenced(tasks, polling_tasks[name]) EXCEPT
                                ![t] = NewTask(name, calls[c].obj)]
                /\ polling_tasks' = [polling_tasks EXCEPT ![name] = t]
           ELSE UNCHANGED <<tasks, polling_tasks>>
        /\ calls' = Returned(c)
        /\ PollFrame
        /\ sched_ret' = NoSchedCall
        /\ UNCHANGED <<impl, started, configs, objs, sensors, running, removed_ok>>

\* the registry over the scheduler: add and remove besides enable / disable
RegistryNext ==
    \/ StartPolling
    \/ StopPollingBegin
    \/ \E c \in CallIds : StopPollingEnd(c)
    \/ \E t \in TaskIds : TaskStep(t)
    \/ \E n \in SensorNames : BLEnableSensor(n)
    \/ \E n \in SensorNames : BLDisableSensor(n)
    \/ \E n \in SensorNames, f \in BOOLEAN : SMSSetEnabled(n, f)
    \/ \E n \in SensorNames : SPSStartSensorPolling(n)
    \/ \E n \in SensorNames : SPSStopSensorPolling(n)
    \/ \E n \in SensorNames : BLRemoveBegin(n)
    \/ \E c \in CallIds : BLRemoveAfterGather(c)
    \/ \E n \in SensorNames : SMSRemoveBegin(n)
    \/ \E c \in CallIds : RemoveAfterDisconnect(c)
    \/ \E c \in CallIds : RemoveReturnsTrue(c)
    \/ \E n \in SensorNames : AddBegin(n)
    \/ \E c \in CallIds : AddAfterSave(c)
    \/ \E c \in CallIds : AddAfterConnect(c)

(***************************************************************************)
(* MQTTProtocol  (protocols/mqtt_protocol.py)                              *)
(* One protocol instance per sensor name; all instances use the one aiomqtt *)
(* client set by MQTTProtocol.set_mqtt_client, whose lock, counter and flag *)
(* are declared as class attributes.  A topic is the list of its segments  *)
(* (topic.split('/')).                                                     *)
(***************************************************************************)
MaxMsgs == 2             \* messages the broker sends in one behaviour
MaxCount == 2            \* largest value of _connected_sensors_count
MsgIds == 1..MaxMsgs

Segments == {"a", "b"}
InboundTopics == {<<x, y>> : x \in {"a"}, y \in Segments}
MqttPatterns == {<<"a", "a">>, <<"a", "b">>, <<"a", "+">>}

\* the class attributes: no statement of the program assigns them through the
\* class, so they keep their declared values
ClassCount == 0
ClassConnected == FALSE

\* an instance without an attribute of its own
NoAttr == -1

\* self.is_wildcard_topic = "#" in self.topic_status or "+" in self.topic_status
is_wildcard_topic(pattern) ==
    \E i \in 1..Len(pattern) : pattern[i] \in {"#", "+"}

RECURSIVE MatchParts(_, _, _)
\* the for loop of _topic_matches from pattern part i, and the length test
\* that follows it
MatchParts(topic, pattern, i) ==
    IF i > Len(pattern)
    THEN ~(pattern[Len(pattern)] # "#" /\ Len(topic) # Len(pattern))
    ELSE IF pattern[i] = "#" THEN TRUE
    ELSE IF pattern[i] = "+" THEN MatchParts(topic, pattern, i + 1)
    ELSE IF pattern[i] # topic[i] THEN FALSE
    ELSE MatchParts(topic, pattern, i + 1)

_topic_matches(topic, pattern) ==
    IF ~is_wildcard_topic(pattern) THEN topic = pattern
    ELSE IF Len(topic) < Len(pattern) THEN FALSE
    ELSE MatchParts(topic, pattern, 1)

\* the instance after __init__; session, owed and applied record what the
\* instance went through: session is true from a connect() that returned True
\* to the next disconnect(), owed are the messages that arrived for the
\* instance during the session, applied those it put in its RAM state.
\* loop and saver are the tasks _subscription_task and _periodic_save_task
\* refer to; leaked is true when a task the instance created runs on with no
\* reference left to it
MqNew ==
    [pc |-> "idle", connected |-> FALSE, own_count |-> NoAttr,
     own_flag |-> "none", subscribed |-> FALSE, loop |-> "none",
     saver |-> "none", ret |-> "none", session |-> FALSE, owed |-> {},
     applied |-> {}, leaked |-> FALSE]

MqttInit ==
    /\ topic_status \in [SensorNames -> MqttPatterns]
    /\ mq = [n \in SensorNames |-> MqNew]
    /\ client_entered = FALSE
    /\ mqtt_lock = 0
    /\ inbox = <<>>
    /\ published = 0

\* self._connected_sensors_count read through an instance
ReadCount(m) == IF m.own_count = NoAttr THEN ClassCount ELSE m.own_count

\* self._mqtt_client_connected read through an instance
ReadFlag(m) == IF m.own_flag = "none" THEN ClassConnected ELSE m.own_flag = "True"

\* connect() fails: except Exception, connected = False, return False
ConnectFailed(m) == [m EXCEPT !.pc = "idle", !.connected = FALSE, !.ret = "false"]

\* connect() up to the shared lock, which it takes.  connect() is called on a
\* new instance (connect_all_sensors, add_sensor) and by execute_action when
\* the instance is not connected
MqConnectBegin(n) ==
    /\ mq[n].pc = "idle"
    /\ ~mq[n].connected
    /\ ReadCount(mq[n]) < MaxCount
    /\ mqtt_lock = 0
    /\ mqtt_lock' = n
    /\ mq' = [mq EXCEPT ![n].pc = "open", ![n].ret = "none"]
    /\ MqttFrame
    /\ UNCHANGED <<topic_status, client_entered, inbox, published>>

\* connect() called on a connected instance (POST /{sensor_name}/connect
\* calls sensor.connect() whatever the state of the sensor), up to the lock
MqConnectAgain(n) ==
    /\ mq[n].pc = "idle"
    /\ mq[n].connected
    /\ ReadCount(mq[n]) < MaxCount
    /\ mqtt_lock = 0
    /\ mqtt_lock' = n
    /\ mq' = [mq EXCEPT ![n].pc = "open", ![n].ret = "none"]
    /\ MqttFrame
    /\ UNCHANGED <<topic_status, client_entered, inbox, published>>

\* connect() inside the lock without the except branch for a client that is
\* already entered: the MqttReentrantError makes connect() fail
MqConnectOpen_ReentrantFails(n) ==
    /\ mq[n].pc = "open"
    /\ mqtt_lock' = 0
    /\ IF ReadFlag(mq[n])
       THEN /\ mq' = [mq EXCEPT ![n].pc = "subscribe"]
            /\ UNCHANGED client_entered
       ELSE IF client_entered
       THEN /\ mq' = [mq EXCEPT ![n] = ConnectFailed(@)]
            /\ UNCHANGED client_entered
       ELSE \E reachable \in BOOLEAN :
               IF reachable
               THEN /\ client_entered' = TRUE
                    /\ mq' = [mq EXCEPT ![n].pc = "subscribe",
                                        ![n].own_flag = "True"]
               ELSE /\ mq' = [mq EXCEPT ![n] = ConnectFailed(@)]
                    /\ UNCHANGED client_entered
    /\ MqttFrame
    /\ UNCHANGED <<topic_status, inbox, published>>

\* connect() inside the lock: the client is entered when the flag read through
\* the instance is false; an entered client answers MqttReentrantError, which
\* sets the flag; an unreachable broker makes __aenter__ raise MqttError
MqConnectOpen(n) ==
    /\ mq[n].pc = "open"
    /\ mqtt_lock' = 0
    /\ IF ReadFlag(mq[n])
       THEN /\ mq' = [mq EXCEPT ![n].pc = "subscribe"]
            /\ UNCHANGED client_entered
       ELSE IF client_entered
       THEN /\ mq' = [mq EXCEPT ![n].pc = "subscribe", ![n].own_flag = "True"]
            /\ UNCHANGED client_entered
       ELSE \E reachable \in BOOLEAN :
               IF reachable
               THEN /\ client_entered' = TRUE
                    /\ mq' = [mq EXCEPT ![n].pc = "subscribe",
                                        ![n].own_flag = "True"]
               ELSE /\ mq' = [mq EXCEPT ![n] = ConnectFailed(@)]
                    /\ UNCHANGED client_entered
    /\ MqttFrame
    /\ UNCHANGED <<topic_status, inbox, published>>

\* connect() after the lock: subscribe (an error on a client that is not
\* connected), then the message loop and the periodic save task are created
\* and assigned over the references to the tasks of an earlier connect()
MqConnectSubscribe(n) ==
    /\ mq[n].pc = "subscribe"
    /\ IF client_entered
       THEN mq' = [mq EXCEPT ![n].pc = "count", ![n].subscribed = TRUE,
                             ![n].loop = "running", ![n].saver = "running",
                             ![n].leaked = @ \/ "running" \in {mq[n].loop, mq[n].saver}]
       ELSE mq' = [mq EXCEPT ![n] = ConnectFailed(@)]
    /\ MqttFrame
    /\ UNCHANGED <<topic_status, client_entered, mqtt_lock, inbox, published>>

\* connect() to its return: self._connected_sensors_count += 1 under the lock,
\* connected = True, return True
MqConnectEnd(n) ==
    /\ mq[n].pc = "count"
    /\ mqtt_lock = 0
    /\ mq' = [mq EXCEPT ![n].pc = "idle", ![n].connected = TRUE,
                        ![n].own_count = ReadCount(mq[n]) + 1,
                        ![n].ret = "true", ![n].session = TRUE]
    /\ MqttFrame
    /\ UNCHANGED <<topic_status, client_entered, mqtt_lock, inbox, published>>

\* the instances a message on this topic is for: those in a session with a
\* receive loop, whose status topic matches
Recipients(topic) ==
    {n \in SensorNames :
        /\ mq[n].session /\ mq[n].pc = "idle" /\ mq[n].loop = "running"
        /\ _topic_matches(topic, topic_status[n])}

\* the broker sends a message on a subscribed topic: it enters the one queue
\* behind client.messages
MqPublish(topic) ==
    /\ client_entered
    /\ published < MaxMsgs
    /\ \E n \in SensorNames :
          mq[n].subscribed /\ _topic_matches(topic, topic_status[n])
    /\ published' = published + 1
    /\ inbox' = Append(inbox, [id |-> published + 1, topic |-> topic])
    /\ mq' = [n \in SensorNames |->
                IF n \in Recipients(topic)
                THEN [mq[n] EXCEPT !.owed = @ \cup {published + 1}]
                ELSE mq[n]]
    /\ MqttFrame
    /\ UNCHANGED <<topic_status, client_entered, mqtt_lock>>

\* one iteration of _message_loop of instance n: it takes the next message of
\* client.messages; a message whose topic does not match its own status
\* topic is skipped (continue), a matching one goes to its RAM state
MqLoopTake(n) ==
    /\ mq[n].loop = "running"
    /\ client_entered
    /\ inbox # <<>>
    /\ inbox' = Tail(inbox)
    /\ IF _topic_matches(Head(inbox).topic, topic_status[n])
       THEN mq' = [mq EXCEPT ![n].applied = @ \cup {Head(inbox).id}]
       ELSE UNCHANGED mq
    /\ MqttFrame
    /\ UNCHANGED <<topic_status, client_entered, mqtt_lock, published>>

\* _message_loop gets CancelledError: pass
MqLoopCancelled(n) ==
    /\ mq[n].loop = "cancel_req"
    /\ mq' = [mq EXCEPT ![n].loop = "done"]
    /\ MqttFrame
    /\ UNCHANGED <<topic_status, client_entered, mqtt_lock, inbox, published>>

\* _message_loop on a closed client: the iteration raises, except Exception
\* sets connected = False and the loop ends
MqLoopDisconnected(n) ==
    /\ mq[n].loop = "running"
    /\ ~client_entered
    /\ mq' = [mq EXCEPT ![n].loop = "done", ![n].connected = FALSE]
    /\ MqttFrame
    /\ UNCHANGED <<topic_status, client_entered, mqtt_lock, inbox, published>>

\* _periodic_save_loop gets CancelledError: pass
MqSaverCancelled(n) ==
    /\ mq[n].saver = "cancel_req"
    /\ mq' = [mq EXCEPT ![n].saver = "done"]
    /\ MqttFrame
    /\ UNCHANGED <<topic_status, client_entered, mqtt_lock, inbox, published>>

\* task.cancel()
CancelRequested(st) == IF st = "running" THEN "cancel_req" ELSE st

TaskOver(st) == st \in {"none", "done"}

\* disconnect() up to its wait for the message loop, which it cancels
MqDisconnectBegin(n) ==
    /\ mq[n].pc = "idle"
    /\ mq' = [mq EXCEPT ![n].pc = "await_loop",
                        ![n].loop = CancelRequested(@),
                        ![n].session = FALSE, ![n].owed = {}, ![n].applied = {}]
    /\ MqttFrame
    /\ UNCHANGED <<topic_status, client_entered, mqtt_lock, inbox, published>>

\* disconnect() from the end of the message loop to its wait for the periodic
\* save task, which it cancels
MqDisconnectLoopOver(n) ==
    /\ mq[n].pc = "await_loop"
    /\ TaskOver(mq[n].loop)
    /\ mq' = [mq EXCEPT ![n].pc = "await_saver", ![n].saver = CancelRequested(@)]
    /\ MqttFrame
    /\ UNCHANGED <<topic_status, client_entered, mqtt_lock, inbox, published>>

\* disconnect() from the end of the save task to the unsubscribe, whose
\* errors are dropped
MqDisconnectSaverOver(n) ==
    /\ mq[n].pc = "await_saver"
    /\ TaskOver(mq[n].saver)
    /\ mq' = [mq EXCEPT ![n].pc = "unsubscribe", ![n].subscribed = FALSE]
    /\ MqttFrame
    /\ UNCHANGED <<topic_status, client_entered, mqtt_lock, inbox, published>>

\* the counter after the decrement of disconnect()
Decremented(m) ==
    IF ReadCount(m) > 0 THEN [m EXCEPT !.own_count = ReadCount(m) - 1] ELSE m

\* disconnect() inside the lock and to its return: the counter read through
\* the instance goes down, and when it is 0 and the flag read through the
\* instance is true the shared client is closed (__aexit__), which ends every
\* subscription; __aexit__ of a client that is not entered may raise, and then
\* the flag stays
MqDisconnectEnd(n) ==
    LET m == [Decremented(mq[n]) EXCEPT !.pc = "idle", !.connected = FALSE,
                                        !.ret = "none"]
    IN  /\ mq[n].pc = "unsubscribe"
        /\ mqtt_lock = 0
        /\ IF ReadCount(m) = 0 /\ ReadFlag(m)
           THEN IF client_entered
                THEN /\ client_entered' = FALSE
                     /\ inbox' = <<>>
                     /\ mq' = [k \in SensorNames |->
                                 IF k = n THEN [m EXCEPT !.own_flag = "False"]
                                 ELSE [mq[k] EXCEPT !.subscribed = FALSE]]
                ELSE /\ \E raised \in BOOLEAN :
                          mq' = [mq EXCEPT ![n] =
                                   IF raised THEN m
                                   ELSE [m EXCEPT !.own_flag = "False"]]
                     /\ UNCHANGED <<client_entered, inbox>>
           ELSE /\ mq' = [mq EXCEPT ![n] = m]
                /\ UNCHANGED <<client_entered, inbox>>
        /\ MqttFrame
        /\ UNCHANGED <<topic_status, mqtt_lock, published>>

MqttNext ==
    \/ \E n \in SensorNames : MqConnectBegin(n)
    \/ \E n \in SensorNames : MqConnectOpen(n)
    \/ \E n \in SensorNames : MqConnectSubscribe(n)
    \/ \E n \in SensorNames : MqConnectEnd(n)
    \/ \E t \in InboundTopics : MqPublish(t)
    \/ \E n \in SensorNames : MqLoopTake(n)
    \/ \E n \in SensorNames : MqLoopCancelled(n)
    \/ \E n \in SensorNames : MqLoopDisconnected(n)
    \/ \E n \in SensorNames : MqSaverCancelled(n)
    \/ \E n \in SensorNames : MqDisconnectBegin(n)
    \/ \E n \in SensorNames : MqDisconnectLoopOver(n)
    \/ \E n \in SensorNames : MqDisconnectSaverOver(n)
    \/ \E n \in SensorNames : MqDisconnectEnd(n)

\* the instances with the manual connect route
MqttRouteNext ==
    \/ MqttNext
    \/ \E n \in SensorNames : MqConnectAgain(n)

(***************************************************************************)
(* MongoClientWrapper: retention of sensor_data  (db/mongo_client.py)      *)
(* Time is a tick counter; a calendar day is DayLen consecutive ticks, the *)
(* last of which is the day's datetime.max.time().  A record of the live   *)
(* store is [sensor, ts]; an export file is kept per (sensor, day).        *)
(***************************************************************************)
DayLen == 3              \* ticks of one calendar day
MaxClock == 8            \* last tick of a behaviour
MaxStore == 3            \* records the live store holds at once

\* timedelta(hours=24)
Horizon == DayLen

Ticks == 0..MaxClock
Day(ts) == ts \div DayLen
Days == {Day(t) : t \in Ticks}

\* datetime.combine(date, datetime.min.time()) and
\* datetime.combine(date, datetime.max.time())
StartOfDay(d) == d * DayLen
EndOfDay(d) == d * DayLen + (DayLen - 1)

NoExport == [written |-> FALSE, data |-> {}]

RetInit ==
    /\ clock = 0
    /\ store = {}
    /\ files = [k \in SensorNames \X Days |-> NoExport]

\* the file export_data_to_file writes for (sensor, day): the records of the
\* sensor the store holds with start_date <= timestamp < end_date
Exported(st, sensor, d) ==
    [written |-> TRUE,
     data |-> {r.ts : r \in {x \in st : /\ x.sensor = sensor
                                        /\ x.ts >= StartOfDay(d)
                                        /\ x.ts < EndOfDay(d)}}]

\* the export loop over the (sensor, day) groups of the old records; the
\* groups in failed raise in export_data_to_file, which is caught and printed
ExportGroups(st, fs, groups, failed) ==
    [k \in SensorNames \X Days |->
        IF k \in groups \ failed THEN Exported(st, k[1], k[2]) ELSE fs[k]]

\* the (sensor, day) groups of a set of records
GroupsOf(recs) == {<<r.sensor, Day(r.ts)>> : r \in recs}

\* the records older than 24 hours: timestamp < cutoff_time
OldRecords(st) == {r \in st : r.ts < clock - Horizon}

\* save_sensor_data(sensor_data): insert, then export the days of this
\* sensor's records older than 24 hours and delete those records
SaveSensorData(sensor, ts, failed) ==
    LET inserted == store \cup {[sensor |-> sensor, ts |-> ts]}
        old == {r \in OldRecords(inserted) : r.sensor = sensor}
    IN  /\ Cardinality(inserted) <= MaxStore
        /\ failed \subseteq GroupsOf(old)
        /\ files' = ExportGroups(inserted, files, GroupsOf(old), failed)
        /\ store' = inserted \ old
        /\ UNCHANGED clock
        /\ RetFrame

\* cleanup_old_data(): export the (day, sensor) groups of all records older
\* than 24 hours and delete those records
CleanupOldData(failed) ==
    LET old == OldRecords(store)
    IN  /\ failed \subseteq GroupsOf(old)
        /\ files' = ExportGroups(store, files, GroupsOf(old), failed)
        /\ store' = store \ old
        /\ UNCHANGED clock
        /\ RetFrame

\* time passes
RetTick ==
    /\ clock < MaxClock
    /\ clock' = clock + 1
    /\ UNCHANGED <<store, files>>
    /\ RetFrame

\* a reading carries the time it was taken: now, or the tick before
ReadingTimes == {t \in Ticks : clock - 1 <= t /\ t <= clock}

RetNext ==
    \/ \E n \in SensorNames, ts \in ReadingTimes :
          \E failed \in SUBSET GroupsOf(OldRecords(store \cup {[sensor |-> n, ts |-> ts]})) :
             SaveSensorData(n, ts, failed)
    \/ \E failed \in SUBSET GroupsOf(OldRecords(store)) : CleanupOldData(failed)
    \/ RetTick

(***************************************************************************)
(* read_data of the sensor and of the three protocols                      *)
(*   SensorBase.read_data         (sensors/sensor_base.py)                 *)
(*   HTTPProtocol.read_data       (protocols/http_protocol.py)             *)
(*   WebSocketProtocol.read_data  (protocols/websocket_protocol.py)        *)
(*   MQTTProtocol.read_data       (protocols/mqtt_protocol.py)             *)
(* The data a sensor pushed (WebSocket _last_data, MQTT _ram_state) has an *)
(* age, the seconds since it arrived.                                      *)
(***************************************************************************)
TickSeconds == 60        \* seconds that pass in one step of time
MaxAge == 180            \* ages are followed up to this many seconds

\* if time_since_update > 120
LivenessWindow == 120

\* "none": a sensor whose _protocol is None
Protocols == {"http", "websocket", "mqtt", "none"}
PushProtocols == {"websocket", "mqtt"}

\* what the device answers to a GET
HttpReplies == {"200_json", "200_malformed", "non200", "timeout", "refused"}
NoRequest == "no_request"

NoReading ==
    [status |-> "none", error |-> "None", proto |-> "none", reply |-> NoRequest,
     has_data |-> FALSE, age |-> 0]

ReadInit ==
    /\ protocol \in [SensorNames -> Protocols]
    /\ rp = [n \in SensorNames |->
               [connected |-> FALSE, session |-> FALSE, has_data |-> FALSE,
                age |-> 0]]
    /\ reading = [n \in SensorNames |-> NoReading]

ReadIdle ==
    /\ protocol = [n \in SensorNames |-> "none"]
    /\ rp = [n \in SensorNames |->
               [connected |-> FALSE, session |-> FALSE, has_data |-> FALSE,
                age |-> 0]]
    /\ reading = [n \in SensorNames |-> NoReading]

\* SensorData(status=..., error=...); error "None" when not given
SensorData(status, error) == [status |-> status, error |-> error]

\* HTTPProtocol.connect: a probe GET; status 200 connects and creates the
\* session, anything else (another status, an exception) leaves connected
\* false
http_connect(p, probe) ==
    IF probe \in {"200_json", "200_malformed"}
    THEN [p EXCEPT !.connected = TRUE, !.session = TRUE]
    ELSE [p EXCEPT !.connected = FALSE]

\* HTTPProtocol.read_data: connect when not connected, create the session
\* when there is none, GET; status 200 with a JSON body is "ok"; another
\* status is "error" with "HTTP <status>"; any exception (timeout, refused
\* connection, body that is not JSON) is "error" with str(e)
http_read_data(p, probe, reply) ==
    LET q == IF ~p.connected THEN http_connect(p, probe) ELSE p
        s == [q EXCEPT !.session = TRUE]
    IN  IF reply = "200_json"
        THEN [p |-> [s EXCEPT !.connected = TRUE],
              data |-> SensorData("ok", "None")]
        ELSE IF reply = "non200"
        THEN [p |-> [s EXCEPT !.connected = FALSE],
              data |-> SensorData("error", "HTTP status")]
        ELSE [p |-> [s EXCEPT !.connected = FALSE],
              data |-> SensorData("error", "str(e)")]

\* WebSocketProtocol.read_data: the last message, or no data yet
ws_read_data(p) ==
    IF p.has_data
    THEN [p |-> p, data |-> SensorData("ok", "None")]
    ELSE [p |-> p, data |-> SensorData("ok", "Nessun dato ricevuto dal sensore")]

\* MQTTProtocol.read_data: the RAM state when it is at most 120 s old
mqtt_read_data(p) ==
    IF ~p.has_data
    THEN [p |-> [p EXCEPT !.connected = FALSE],
          data |-> SensorData("error", "Nessun dato disponibile")]
    ELSE IF p.age > LivenessWindow
    THEN [p |-> [p EXCEPT !.connected = FALSE],
          data |-> SensorData("error", "Dati non aggiornati")]
    ELSE [p |-> [p EXCEPT !.connected = TRUE],
          data |-> SensorData("ok", "None")]

\* SensorBase.read_data: the protocol's read_data, or an error reading when
\* the sensor has no protocol
sensor_read_data(kind, p, probe, reply) ==
    IF kind = "http" THEN http_read_data(p, probe, reply)
    ELSE IF kind = "websocket" THEN ws_read_data(p)
    ELSE IF kind = "mqtt" THEN mqtt_read_data(p)
    ELSE [p |-> p, data |-> SensorData("error", "Nessun protocollo configurato")]

\* a call of sensor.read_data(); the reading is kept with the conditions it
\* was taken under
SensorReadData(n, probe, reply) ==
    LET r == sensor_read_data(protocol[n], rp[n], probe, reply)
    IN  /\ (protocol[n] = "http") <=> (reply # NoRequest)
        /\ (protocol[n] = "http" /\ ~rp[n].connected) <=> (probe # NoRequest)
        /\ rp' = [rp EXCEPT ![n] = r.p]
        /\ reading' = [reading EXCEPT ![n] =
                          [status |-> r.data.status, error |-> r.data.error,
                           proto |-> protocol[n], reply |-> reply,
                           has_data |-> rp[n].has_data, age |-> rp[n].age]]
        /\ UNCHANGED protocol
        /\ ReadFrame

\* the sensor pushes a message: _last_data / _ram_state is set now
PushArrives(n) ==
    /\ protocol[n] \in PushProtocols
    /\ rp' = [rp EXCEPT ![n].has_data = TRUE, ![n].age = 0]
    /\ UNCHANGED <<protocol, reading>>
    /\ ReadFrame

\* time passes: the pushed data gets older
ReadTick ==
    /\ \E n \in SensorNames : rp[n].has_data /\ rp[n].age + TickSeconds <= MaxAge
    /\ rp' = [n \in SensorNames |->
                IF rp[n].has_data /\ rp[n].age + TickSeconds <= MaxAge
                THEN [rp[n] EXCEPT !.age = @ + TickSeconds]
                ELSE rp[n]]
    /\ UNCHANGED <<protocol, reading>>
    /\ ReadFrame

ReadNext ==
    \/ \E n \in SensorNames, probe, reply \in HttpReplies \cup {NoRequest} :
          SensorReadData(n, probe, reply)
    \/ \E n \in SensorNames : PushArrives(n)
    \/ ReadTick

(***************************************************************************)
(* MQTTProtocol: the RAM state of one instance  (protocols/mqtt_protocol.py)*)
(* Time is in seconds.  A payload is a number: 1 and 2 are scalar values,  *)
(* 10 and 11 stand for the JSON objects {} and {"x": 2}.                   *)
(***************************************************************************)
MaxNow == 180            \* last second of a behaviour
MaxSavers == 2           \* connect() calls of one instance, each creating a saving task

\* elif time_since_last_update > 60
RetainedWindow == 60

NoTime == -1             \* None where a datetime is expected
NoValue == 0             \* a key the dictionary does not have

RamKeys == {"x", "y", "value"}
RamTopics == {<<"y">>, <<"a", "x">>}
RamPatterns == {<<"#">>, <<"a", "+">>, <<"a", "x">>}
Scalars == {1, 2}
DictPayloads == {10, 11}
Payloads == Scalars \cup DictPayloads

\* the JSON object a payload decodes to
DictOf(p) == [k \in RamKeys |-> IF p = 11 /\ k = "x" THEN 2 ELSE NoValue]

EmptyDict == [k \in RamKeys |-> NoValue]

\* the instance after __init__; session is true once connect() has started
\* the message loop
RamNew ==
    [state |-> EmptyDict, timestamp |-> NoTime, last_update |-> NoTime,
     connected |-> FALSE, session |-> FALSE]

\* savers: the _periodic_save_loop tasks that run; due: those whose sleep
\* has ended; writes: the writes to the store in the current flush interval;
\* written: the data of the last write
FlushNew == [savers |-> 0, due |-> 0, writes |-> 0, written |-> EmptyDict]

NoRamOut == [status |-> "none", data |-> EmptyDict, error |-> "None"]
NoRamEvent == [ev |-> "none", retained |-> FALSE]

RamIdle ==
    /\ ram_topic = <<"a", "x">>
    /\ ram = RamNew
    /\ now = 0
    /\ ram_out = NoRamOut
    /\ ram_ev = NoRamEvent
    /\ latest = EmptyDict
    /\ flush = FlushNew

RamInit ==
    /\ ram_topic \in RamPatterns
    /\ ram = RamNew
    /\ now = 0
    /\ ram_out = NoRamOut
    /\ ram_ev = NoRamEvent
    /\ latest = EmptyDict
    /\ flush = FlushNew

\* the end of a connect() that succeeds: the message loop runs, a new
\* _periodic_save_loop task is created, connected = True,
\* update_last_update()
RamConnect ==
    /\ flush.savers < MaxSavers
    /\ ram' = [ram EXCEPT !.connected = TRUE, !.last_update = now,
                          !.session = TRUE]
    /\ flush' = [flush EXCEPT !.savers = @ + 1]
    /\ ram_ev' = [ev |-> "connect", retained |-> FALSE]
    /\ UNCHANGED <<ram_topic, now, ram_out, latest>>
    /\ RamFrame

\* parts[-1] when the topic has at least two parts, else "value"
_extract_data_from_topic(topic) ==
    IF Len(topic) >= 2 THEN topic[Len(topic)] ELSE "value"

\* the retained message passes the test of _message_loop with every retained
\* message accepted
RetainedAccepted_Always(r, t) == TRUE

\* the retained message passes the test of _message_loop: the state is empty
\* and has no timestamp, or last_update is at most 60 s old
RetainedAccepted(r, t) ==
    IF r.state = EmptyDict /\ r.timestamp = NoTime THEN TRUE
    ELSE IF r.last_update = NoTime THEN FALSE
    ELSE ~(t - r.last_update > RetainedWindow)

\* the update of the RAM state by a message that is not a wildcard match: a
\* JSON object is merged into the state, another value is stored as "value"
Merged(state, payload) ==
    IF payload \in DictPayloads
    THEN [k \in RamKeys |->
            IF DictOf(payload)[k] # NoValue THEN DictOf(payload)[k] ELSE state[k]]
    ELSE [state EXCEPT !["value"] = payload]

\* the instance after it stored the message
Applied(r, pattern, topic, payload, t) ==
    [r EXCEPT !.state = IF is_wildcard_topic(pattern)
                        THEN [@ EXCEPT ![_extract_data_from_topic(topic)] = payload]
                        ELSE Merged(@, payload),
              !.timestamp = t,
              !.last_update = t]

\* what one iteration of _message_loop does with a message
Outcome(r, pattern, topic, retained, t) ==
    IF retained /\ ~RetainedAccepted(r, t) THEN "discarded"
    ELSE IF ~_topic_matches(topic, pattern) THEN "skipped"
    ELSE "applied"

\* one iteration of _message_loop
RamMessage(topic, payload, retained) ==
    LET o == Outcome(ram, ram_topic, topic, retained, now)
    IN  /\ ram.session
        /\ ram' = IF o = "applied"
                  THEN Applied(ram, ram_topic, topic, payload, now)
                  ELSE ram
        /\ ram_ev' = [ev |-> o, retained |-> retained]
        /\ latest' = IF o = "applied" /\ is_wildcard_topic(ram_topic)
                     THEN [latest EXCEPT ![topic[Len(topic)]] = payload]
                     ELSE latest
        /\ UNCHANGED <<ram_topic, now, ram_out, flush>>
        /\ RamFrame

\* MQTTProtocol.read_data with the liveness test passed by every state
ram_read_data_NeverStale(r, t) ==
    IF r.state = EmptyDict \/ r.timestamp = NoTime
    THEN [p |-> [r EXCEPT !.connected = FALSE],
          data |-> [status |-> "error", data |-> EmptyDict,
                    error |-> "Nessun dato disponibile"]]
    ELSE [p |-> [r EXCEPT !.connected = TRUE],
          data |-> [status |-> "ok", data |-> r.state, error |-> "None"]]

\* MQTTProtocol.read_data
ram_read_data(r, t) ==
    IF r.state = EmptyDict \/ r.timestamp = NoTime
    THEN [p |-> [r EXCEPT !.connected = FALSE],
          data |-> [status |-> "error", data |-> EmptyDict,
                    error |-> "Nessun dato disponibile"]]
    ELSE IF t - r.timestamp > LivenessWindow
    THEN [p |-> [r EXCEPT !.connected = FALSE],
          data |-> [status |-> "error", data |-> EmptyDict,
                    error |-> "Dati non aggiornati"]]
    ELSE [p |-> [r EXCEPT !.connected = TRUE],
          data |-> [status |-> "ok", data |-> r.state, error |-> "None"]]

\* a call of read_data
RamReadData ==
    LET res == ram_read_data(ram, now)
    IN  /\ ram' = res.p
        /\ ram_out' = res.data
        /\ ram_ev' = [ev |-> "read", retained |-> FALSE]
        /\ UNCHANGED <<ram_topic, now, latest, flush>>
        /\ RamFrame

\* time passes
RamTick ==
    /\ now + TickSeconds <= MaxNow
    /\ now' = now + TickSeconds
    /\ ram_ev' = [ev |-> "tick", retained |-> FALSE]
    /\ UNCHANGED <<ram_topic, ram, ram_out, latest, flush>>
    /\ RamFrame

RamNext ==
    \/ RamConnect
    \/ \E topic \in RamTopics, payload \in Payloads, retained \in BOOLEAN :
          RamMessage(topic, payload, retained)
    \/ RamReadData
    \/ RamTick

\* the data lock is free, the state has data: the body of the saving loop
\* after its sleep. stored: save_sensor_data returned, raised, or there is
\* no _mongo_client
StoreOutcomes == {"saved", "failed", "no_client"}

\* the sleep of every _periodic_save_loop task ends: a flush interval of
\* 10 s has passed
FlushTick ==
    /\ flush.savers > 0
    /\ flush.due = 0
    /\ flush' = [flush EXCEPT !.due = flush.savers, !.writes = 0]
    /\ ram_ev' = [ev |-> "flush_tick", retained |-> FALSE]
    /\ UNCHANGED <<ram_topic, ram, now, ram_out, latest>>
    /\ RamFrame

\* _periodic_save_loop, one turn after the sleep: nothing when _ram_state is
\* empty or has no timestamp, else save_sensor_data with a copy of the state
PeriodicSave(stored) ==
    /\ flush.due > 0
    /\ flush' = IF ram.state = EmptyDict \/ ram.timestamp = NoTime
                THEN [flush EXCEPT !.due = @ - 1]
                ELSE IF stored = "saved"
                THEN [flush EXCEPT !.due = @ - 1, !.writes = @ + 1,
                                   !.written = ram.state]
                ELSE [flush EXCEPT !.due = @ - 1]
    /\ ram_ev' = [ev |-> "save", retained |-> FALSE]
    /\ UNCHANGED <<ram_topic, ram, now, ram_out, latest>>
    /\ RamFrame

\* an MQTT instance with its message loop and its saving loops
FlushNext ==
    \/ RamConnect
    \/ \E topic \in RamTopics, payload \in Payloads, retained \in BOOLEAN :
          RamMessage(topic, payload, retained)
    \/ FlushTick
    \/ \E stored \in StoreOutcomes : PeriodicSave(stored)

(***************************************************************************)
(* Ingestion and the automation hook                                       *)
(*   SensorPollingService._poll_sensor   (the polling loop)                *)
(*   WebSocketProtocol._handle_client    (the loop over a client's         *)
(*                                        messages)                        *)
(*   MQTTProtocol._message_loop          (the loop over the broker's       *)
(*                                        messages)                        *)
(* Each path takes readings, records them and tells the automation         *)
(* service, whose on_sensor_data may raise.                                *)
(***************************************************************************)
MaxReadings == 2         \* readings or messages one path takes

Paths == {"poll", "ws", "mqtt"}

\* what a call of on_sensor_data does
HookOutcomes == {"returns", "raises"}

\* taken: readings or messages the loop has taken; recorded: those it has
\* recorded (saved, kept as _last_data, merged into _ram_state); alive: the
\* loop goes on; hook: what became of the hook for the last one taken;
\* pending: notify_automation tasks created and not yet run
IngestNew ==
    [taken |-> 0, recorded |-> 0, alive |-> TRUE, hook |-> "none",
     pending |-> 0]

HookIdle ==
    /\ automation = FALSE
    /\ ingest = [p \in Paths |-> IngestNew]

HookInit ==
    /\ automation \in BOOLEAN
    /\ ingest = [p \in Paths |-> IngestNew]

\* a loop in which an exception of the hook ends the loop
HookCalled_ExceptionEscapes(i, set, outcome) ==
    IF ~set THEN [i EXCEPT !.hook = "not_set"]
    ELSE IF outcome = "raises" THEN [i EXCEPT !.hook = "raises", !.alive = FALSE]
    ELSE [i EXCEPT !.hook = outcome]

\* if self._automation_service: try: await on_sensor_data(...) except
\* Exception: print -- the exception is caught where the hook is called
HookCalled(i, set, outcome) ==
    IF ~set THEN [i EXCEPT !.hook = "not_set"]
    ELSE [i EXCEPT !.hook = outcome]

\* a reading or message has been taken, and recorded or not
Taken(i, recorded) ==
    [i EXCEPT !.taken = @ + 1,
              !.recorded = IF recorded THEN @ + 1 ELSE @]

\* _poll_sensor, one turn of the loop: read_data, save_sensor_data (an
\* exception of which is caught), the hook, the publication, the sleep
PollIteration(save_ok, outcome) ==
    LET i == ingest["poll"] IN
    /\ i.alive /\ i.taken < MaxReadings
    /\ ingest' = [ingest EXCEPT !["poll"] =
                     HookCalled(Taken(i, save_ok), automation, outcome)]
    /\ UNCHANGED <<automation, factory, target, action>>
    /\ AuxFrame

\* _handle_client, one message of the client: json.loads, _last_data = data,
\* the hook; a message that is not JSON is logged and left out
WsHandleMessage(is_json, outcome) ==
    LET i == ingest["ws"] IN
    /\ i.alive /\ i.taken < MaxReadings
    /\ ingest' = [ingest EXCEPT !["ws"] =
                     IF is_json
                     THEN HookCalled(Taken(i, TRUE), automation, outcome)
                     ELSE [Taken(i, FALSE) EXCEPT !.hook = "none"]]
    /\ UNCHANGED <<automation, factory, target, action>>
    /\ AuxFrame

\* _handle_client: the client closes the connection, the loop over its
\* messages ends
WsHandlerClosed ==
    /\ ingest["ws"].alive
    /\ ingest' = [ingest EXCEPT !["ws"].alive = FALSE]
    /\ UNCHANGED <<automation, factory, target, action>>
    /\ AuxFrame

\* _message_loop, one message: a message for another topic or a stale
\* retained one is passed over; otherwise the RAM state is updated and, when
\* an automation service is set, a notify_automation task is created
MqHandleMessage(applies) ==
    LET i == ingest["mqtt"] IN
    /\ i.alive /\ i.taken < MaxReadings
    /\ ingest' = [ingest EXCEPT !["mqtt"] =
                     IF applies
                     THEN [Taken(i, TRUE) EXCEPT
                              !.hook = IF automation THEN "task" ELSE "not_set",
                              !.pending = IF automation THEN @ + 1 ELSE @]
                     ELSE [Taken(i, FALSE) EXCEPT !.hook = "none"]]
    /\ UNCHANGED <<automation, factory, target, action>>
    /\ AuxFrame

\* notify_automation, run as a task of its own: the hook is called with a
\* copy of the RAM state inside try/except
NotifyAutomation(outcome) ==
    LET i == ingest["mqtt"] IN
    /\ i.pending > 0
    /\ ingest' = [ingest EXCEPT !["mqtt"] =
                     HookCalled([i EXCEPT !.pending = @ - 1], automation, outcome)]
    /\ UNCHANGED <<automation, factory, target, action>>
    /\ AuxFrame

HookNext ==
    \/ \E save_ok \in BOOLEAN, outcome \in HookOutcomes :
          PollIteration(save_ok, outcome)
    \/ \E is_json \in BOOLEAN, outcome \in HookOutcomes :
          WsHandleMessage(is_json, outcome)
    \/ WsHandlerClosed
    \/ \E applies \in BOOLEAN : MqHandleMessage(applies)
    \/ \E outcome \in HookOutcomes : NotifyAutomation(outcome)

(***************************************************************************)
(* SensorFactory  (sensors/factory.py)                                     *)
(***************************************************************************)
MaxConfigs == 2          \* configurations in one list

\* SensorType of a configuration; "other" is a type with no entry in
\* _sensor_registry
ConfigTypes == {"http", "websocket", "custom", "other"}

\* custom_class of a configuration: not given, the name of a registered
\* class, of a class that can be imported, of one that cannot
CustomClasses == {"none", "registered", "importable", "missing"}

\* the configurations a list may hold; init_ok says whether the constructor
\* of the sensor class accepts the configuration
FactoryConfigs ==
    {c \in [name : SensorNames, enabled : BOOLEAN, type : ConfigTypes,
            custom_class : CustomClasses, init_ok : BOOLEAN] :
        /\ c.type # "custom" => c.custom_class = "none"
        /\ c.type = "other" => c.init_ok
        /\ (c.type = "custom" /\ c.custom_class \in {"none", "missing"})
              => c.init_ok}

ConfigLists ==
    UNION {[1..k -> FactoryConfigs] : k \in 0..MaxConfigs}

NoSensors == [n \in SensorNames |-> 0]

\* nothing has been asked of the factory
FactoryIdle ==
    factory = [configs |-> <<>>, called |-> FALSE, sensors |-> NoSensors,
               attempted |-> <<>>, raised |-> FALSE]

FactoryInit ==
    \E cfgs \in ConfigLists :
        factory = [configs |-> cfgs, called |-> FALSE, sensors |-> NoSensors,
                   attempted |-> <<>>, raised |-> FALSE]

\* create_sensor: TRUE when it returns a sensor, FALSE when it raises
create_sensor(c) ==
    IF ~c.enabled THEN FALSE
    ELSE IF c.type = "custom"
    THEN IF c.custom_class = "none" THEN FALSE
         ELSE IF c.custom_class = "registered" THEN c.init_ok
         ELSE IF c.custom_class = "importable" THEN c.init_ok
         ELSE FALSE
    ELSE IF c.type \notin {"http", "websocket"} THEN FALSE
    ELSE c.init_ok

\* the body of the loop with the exception of create_sensor let through
LoopBody_NoCatch(acc, c, i) ==
    IF create_sensor(c)
    THEN [acc EXCEPT !.sensors[c.name] = i, !.attempted = Append(@, i)]
    ELSE [acc EXCEPT !.attempted = Append(@, i), !.raised = TRUE]

\* the body of the loop for the i-th configuration:
\* try: sensors[config.name] = create_sensor(config)
\* except Exception: print; continue
LoopBody(acc, c, i) ==
    IF create_sensor(c)
    THEN [acc EXCEPT !.sensors[c.name] = i, !.attempted = Append(@, i)]
    ELSE [acc EXCEPT !.attempted = Append(@, i)]

\* for config in configs, from the i-th on; an exception that leaves the
\* body ends the call
RECURSIVE FactoryLoop(_, _, _)
FactoryLoop(cfgs, i, acc) ==
    IF i > Len(cfgs) \/ acc.raised THEN acc
    ELSE FactoryLoop(cfgs, i + 1, LoopBody(acc, cfgs[i], i))

\* create_sensors_from_configs(configs)
create_sensors_from_configs(cfgs) ==
    FactoryLoop(cfgs, 1, [sensors |-> NoSensors, attempted |-> <<>>,
                          raised |-> FALSE])

\* the call of create_sensors_from_configs on the list
CreateSensorsFromConfigs ==
    LET r == create_sensors_from_configs(factory.configs)
    IN  /\ ~factory.called
        /\ factory' = [configs |-> factory.configs, called |-> TRUE,
                       sensors |-> r.sensors, attempted |-> r.attempted,
                       raised |-> r.raised]
        /\ UNCHANGED <<automation, ingest, target, action>>
        /\ AuxFrame

FactoryNext == CreateSensorsFromConfigs

(***************************************************************************)
(* Actions on sensors                                                      *)
(*   SensorManagementService.execute_sensor_action                         *)
(*   SensorBase.execute_action and the execute_action of the protocols     *)
(***************************************************************************)
\* the action names a caller may give; a sensor has some of them configured
ActionNames == {"on", "off"}

\* the protocol of the sensor; "none": _protocol is None
ActionProtocols == {"http", "websocket", "mqtt", "none"}

\* what the transport does with the request of the action: the device
\* answers 200, answers another status, or the request or the publication
\* raises
Transports == {"200", "non200", "raises"}

\* the dict an execute_action returns
ActionResult(success, status_code, error) ==
    [success |-> success, status_code |-> status_code, error |-> error]

\* HTTPProtocol.execute_action: GET on the action's path
http_execute_action(transport) ==
    IF transport = "200" THEN ActionResult(TRUE, "200", "None")
    ELSE IF transport = "non200" THEN ActionResult(FALSE, "status", "HTTP status")
    ELSE ActionResult(FALSE, "None", "str(e)")

\* WebSocketProtocol.execute_action: actions are not supported
ws_execute_action == ActionResult(FALSE, "None", "Azioni non supportate")

\* MQTTProtocol.execute_action: publish the command on topic_command
mqtt_execute_action(transport) ==
    IF transport = "raises" THEN ActionResult(FALSE, "None", "str(e)")
    ELSE ActionResult(TRUE, "200", "None")

\* SensorBase.execute_action: ValueError for an action that is not
\* configured, else the result of the protocol
sensor_execute_action(s, action_name, transport) ==
    IF action_name \notin s.actions
    THEN [raises |-> "ValueError", result |-> ActionResult(FALSE, "None", "None")]
    ELSE [raises |-> "none",
          result |-> IF s.proto = "none"
                     THEN ActionResult(FALSE, "None", "Nessun protocollo configurato")
                     ELSE IF s.proto = "http" THEN http_execute_action(transport)
                     ELSE IF s.proto = "websocket" THEN ws_execute_action
                     ELSE mqtt_execute_action(transport)]

\* execute_sensor_action with the ValueError of the sensor let through
execute_sensor_action_NoCatch(s, action_name, transport) ==
    IF ~s.registered
    THEN [raised |-> TRUE, response |-> ActionResult(FALSE, "None", "None")]
    ELSE LET r == sensor_execute_action(s, action_name, transport)
         IN  IF r.raises # "none"
             THEN [raised |-> TRUE, response |-> ActionResult(FALSE, "None", "None")]
             ELSE [raised |-> FALSE, response |-> r.result]

\* execute_sensor_action: ValueError for a name that is not in self.sensors;
\* else the result of the sensor as a SensorActionResponse, an exception of
\* the sensor turned into a response with success = False and error = str(e)
execute_sensor_action(s, action_name, transport) ==
    IF ~s.registered
    THEN [raised |-> TRUE, response |-> ActionResult(FALSE, "None", "None")]
    ELSE LET r == sensor_execute_action(s, action_name, transport)
         IN  IF r.raises # "none"
             THEN [raised |-> FALSE,
                   response |-> ActionResult(FALSE, "None", "str(e)")]
             ELSE [raised |-> FALSE, response |-> r.result]

NoActionCall ==
    [op |-> "none", name |-> "none", transport |-> "none", raised |-> FALSE,
     response |-> ActionResult(FALSE, "None", "None")]

\* the sensor the calls are made for: whether its name is in self.sensors,
\* its protocol and the actions of its configuration
ActionSensors ==
    [registered : BOOLEAN, proto : ActionProtocols, actions : SUBSET ActionNames]

ActionIdle ==
    /\ target = [registered |-> FALSE, proto |-> "none", actions |-> {}]
    /\ action = NoActionCall

ActionInit ==
    /\ target \in ActionSensors
    /\ action = NoActionCall

\* a call of execute_sensor_action(sensor_name, action_name)
ExecuteSensorAction(action_name, transport) ==
    LET r == execute_sensor_action(target, action_name, transport)
    IN  /\ action' = [op |-> "execute_sensor_action", name |-> action_name,
                      transport |-> transport, raised |-> r.raised,
                      response |-> r.response]
        /\ UNCHANGED <<automation, ingest, factory, target>>
        /\ AuxFrame

ActionNext ==
    \E action_name \in ActionNames, transport \in Transports :
        ExecuteSensorAction(action_name, transport)

(***************************************************************************)
(* The retained value of a WebSocket listener                              *)
(*   WebSocketProtocol._handle_client  (the loop over a client's messages) *)
(*   WebSocketProtocol.read_data                                           *)
(***************************************************************************)
MaxReads == 2            \* read_data calls followed between two messages

\* what a client sends: two JSON objects, the JSON texts null and 5, and a
\* text that is not JSON
WsMessages == {"obj1", "obj2", "null", "number", "not_json"}

\* json.loads(message): the value of the text, or JSONDecodeError
json_loads(m) ==
    IF m = "not_json" THEN "JSONDecodeError"
    ELSE IF m = "null" THEN "None"
    ELSE m

\* SensorData declares data: Dict[str, Any]; its constructor raises
\* ValidationError for a value that is not a dict
IsDict(v) == v \in {"obj1", "obj2"}

NoOut == [status |-> "none", data |-> "none", error |-> "None"]

\* last_data: _last_data; last_json: the last message that json.loads
\* accepted; out: what the last read_data returned; reads: read_data calls
\* since the last message; ev: what the instance did last
WsDataNew ==
    [last_data |-> "None", last_json |-> "nothing", out |-> NoOut, reads |-> 0,
     ev |-> "none"]

WsDataInit == wsd = [n \in SensorNames |-> WsDataNew]

\* _handle_client, the body of the loop for one message: data =
\* json.loads(message); _last_data = data.  JSONDecodeError is caught and
\* logged before the assignment; what follows the assignment (SensorData,
\* the automation hook) may raise and is caught after it
handle_message(last, m) ==
    IF json_loads(m) = "JSONDecodeError" THEN last ELSE json_loads(m)

\* read_data: _last_data is returned and kept when it is not None; the
\* ValidationError of SensorData(data=...) is caught by except Exception
read_last_data(last) ==
    IF last # "None"
    THEN IF IsDict(last)
         THEN [status |-> "ok", data |-> last, error |-> "None"]
         ELSE [status |-> "error", data |-> "empty", error |-> "str(e)"]
    ELSE [status |-> "ok", data |-> "empty",
          error |-> "Nessun dato ricevuto dal sensore"]

\* a client of listener n sends message m
WsDataMessage(n, m) ==
    /\ wsd' = [wsd EXCEPT ![n] =
                 [@ EXCEPT !.last_data = handle_message(@, m),
                           !.last_json = IF json_loads(m) = "JSONDecodeError"
                                         THEN @ ELSE m,
                           !.reads = 0,
                           !.ev = m]]
    /\ UNCHANGED <<tm, pl, reg>> /\ ExtFrame

\* a call of read_data on listener n
WsDataRead(n) ==
    /\ wsd[n].reads < MaxReads
    /\ wsd' = [wsd EXCEPT ![n] =
                 [@ EXCEPT !.out = read_last_data(wsd[n].last_data),
                           !.reads = @ + 1,
                           !.ev = "read"]]
    /\ UNCHANGED <<tm, pl, reg>> /\ ExtFrame

WsDataNext ==
    \/ \E n \in SensorNames, m \in WsMessages : WsDataMessage(n, m)
    \/ \E n \in SensorNames : WsDataRead(n)

(***************************************************************************)
(* Topic matching of one MQTTProtocol instance                             *)
(*   MQTTProtocol._topic_matches, called by _message_loop with the topic   *)
(*   of each message and the instance's topic_status                       *)
(***************************************************************************)
MaxDepth == 3            \* segments of a topic or of a status topic

SeqsUpTo(S, n) == UNION {[1..k -> S] : k \in 1..n}

\* topics of published messages: no wildcard in them
MatchTopics == SeqsUpTo(Segments, MaxDepth)

\* status topics the broker accepts as subscription filters: "+" stands for
\* a whole segment, "#" is the last segment
MatchPatterns ==
    SeqsUpTo(Segments \cup {"+"}, MaxDepth)
      \cup {<<"#">>}
      \cup {Append(p, "#") : p \in SeqsUpTo(Segments \cup {"+"}, MaxDepth - 1)}

NoMatchCall == "none"

MatchIdle == tm = [pattern |-> <<"a">>, topic |-> <<"a">>, result |-> NoMatchCall]

\* an instance with its topic_status and the first message
MatchInit ==
    tm \in [pattern : MatchPatterns, topic : MatchTopics, result : {NoMatchCall}]

\* _message_loop: _topic_matches(topic, self.topic_status) for the message
TopicMatches ==
    /\ tm.result = NoMatchCall
    /\ tm' = [tm EXCEPT !.result =
                 IF _topic_matches(tm.topic, tm.pattern) THEN "True" ELSE "False"]
    /\ UNCHANGED <<wsd, pl, reg>> /\ ExtFrame

\* the next message of the broker
MatchNextMessage(topic) ==
    /\ tm.result # NoMatchCall
    /\ tm' = [tm EXCEPT !.topic = topic, !.result = NoMatchCall]
    /\ UNCHANGED <<wsd, pl, reg>> /\ ExtFrame

MatchNext ==
    \/ TopicMatches
    \/ \E topic \in MatchTopics : MatchNextMessage(topic)

(***************************************************************************)
(* One turn of the polling loop                                            *)
(*   SensorPollingService._poll_sensor, followed await by await            *)
(***************************************************************************)
\* what the awaited calls of the loop body do
ReadOutcomes == {"ok", "error", "raises"}
CallOutcomes == {"returns", "raises"}

\* the steps of one turn, in the order of the source text
StepOrder == <<"read_data", "save_sensor_data", "on_sensor_data",
               "publish_sensor_data", "sleep">>

\* mongo, auto, mqtt: mongo_client, _automation_service and mqtt_client are
\* set; go: self._running and sensor.enabled; pc: the await the task is at;
\* status: status of the reading of this turn; steps: the awaits of this
\* turn that have been made; save_failed: save_sensor_data raised in this
\* turn; escaped: an exception left the body in this turn; prev: how the
\* turn before ended
LoopNew(mongo, auto, mqtt) ==
    [mongo |-> mongo, auto |-> auto, mqtt |-> mqtt, go |-> TRUE,
     pc |-> "read_data", status |-> "none", steps |-> <<>>,
     save_failed |-> FALSE, escaped |-> FALSE, prev |-> "none"]

LoopIdle == pl = LoopNew(FALSE, FALSE, FALSE)

\* a task that has entered the while loop
LoopInit == pl \in {LoopNew(mongo, auto, mqtt) : mongo, auto, mqtt \in BOOLEAN}

\* the await that follows the publication: the sleep
AfterPublish(l) == "sleep"

\* the await that follows the notification
AfterNotify(l) ==
    IF l.mqtt /\ l.status = "ok" THEN "publish_sensor_data" ELSE AfterPublish(l)

\* a loop in which a failed save ends the turn
AfterSave_FailureEndsTurn(l) ==
    IF l.save_failed THEN "sleep"
    ELSE IF l.auto THEN "on_sensor_data" ELSE AfterNotify(l)

\* the await that follows the save, whether the save raised or not: its
\* exception is caught where it is made
AfterSave(l) ==
    IF l.auto THEN "on_sensor_data" ELSE AfterNotify(l)

\* the await that follows read_data
AfterRead(l) ==
    IF l.mongo THEN "save_sensor_data" ELSE AfterSave(l)

Stepped(l, step) == [l EXCEPT !.steps = Append(@, step)]

\* sensor_data = await sensor.read_data(); an exception of it leaves the
\* body for the except Exception branch, which sleeps
LoopReadData(outcome) ==
    LET l == [pl EXCEPT !.steps = <<"read_data">>, !.save_failed = FALSE,
                        !.escaped = FALSE]
    IN  /\ pl.pc = "read_data"
        /\ pl' = IF outcome = "raises"
                 THEN [l EXCEPT !.status = "none", !.escaped = TRUE,
                                !.pc = "except_sleep"]
                 ELSE LET r == [l EXCEPT !.status = outcome]
                      IN  [r EXCEPT !.pc = AfterRead(r)]
        /\ UNCHANGED <<wsd, tm, reg>> /\ ExtFrame

\* await self.mongo_client.save_sensor_data(sensor_data), in its own try
LoopSaveSensorData(outcome) ==
    LET l == [Stepped(pl, "save_sensor_data") EXCEPT
                 !.save_failed = (outcome = "raises")]
    IN  /\ pl.pc = "save_sensor_data"
        /\ pl' = [l EXCEPT !.pc = AfterSave(l)]
        /\ UNCHANGED <<wsd, tm, reg>> /\ ExtFrame

\* await self._automation_service.on_sensor_data(name, sensor_data), in its
\* own try
LoopOnSensorData(outcome) ==
    LET l == Stepped(pl, "on_sensor_data")
    IN  /\ pl.pc = "on_sensor_data"
        /\ pl' = [l EXCEPT !.pc = AfterNotify(l)]
        /\ UNCHANGED <<wsd, tm, reg>> /\ ExtFrame

\* await self.mqtt_client.publish_sensor_data(sensor_data), in its own try
LoopPublishSensorData(outcome) ==
    LET l == Stepped(pl, "publish_sensor_data")
    IN  /\ pl.pc = "publish_sensor_data"
        /\ pl' = [l EXCEPT !.pc = AfterPublish(l)]
        /\ UNCHANGED <<wsd, tm, reg>> /\ ExtFrame

\* await asyncio.sleep(poll_interval), at the end of the body or in the
\* except Exception branch, and the test of the while condition after it
LoopSleep ==
    /\ pl.pc \in {"sleep", "except_sleep"}
    /\ pl' = [Stepped(pl, "sleep") EXCEPT
                 !.pc = IF pl.go THEN "read_data" ELSE "done",
                 !.prev = IF pl.escaped THEN "exception" ELSE "normal"]
    /\ UNCHANGED <<wsd, tm, reg>> /\ ExtFrame

\* the task is cancelled at the await it is at: CancelledError breaks the
\* loop from the body and leaves the function from the except branch
LoopCancelled ==
    /\ pl.pc # "done"
    /\ pl' = [pl EXCEPT !.pc = "done"]
    /\ UNCHANGED <<wsd, tm, reg>> /\ ExtFrame

\* stop_polling sets _running to False, or the sensor is disabled
LoopConditionOff ==
    /\ pl.go /\ pl.pc # "done"
    /\ pl' = [pl EXCEPT !.go = FALSE]
    /\ UNCHANGED <<wsd, tm, reg>> /\ ExtFrame

LoopNext ==
    \/ \E outcome \in ReadOutcomes : LoopReadData(outcome)
    \/ \E outcome \in CallOutcomes : LoopSaveSensorData(outcome)
    \/ \E outcome \in CallOutcomes : LoopOnSensorData(outcome)
    \/ \E outcome \in CallOutcomes : LoopPublishSensorData(outcome)
    \/ LoopSleep
    \/ LoopCancelled
    \/ LoopConditionOff

(***************************************************************************)
(* add_sensor and update_sensor with several calls in flight               *)
(*   BusinessLogic.add_sensor / remove_sensor / update_sensor              *)
(*   SensorManagementService.add_sensor / remove_sensor / update_sensor    *)
(* Every await of a call is a point where another call may run.            *)
(***************************************************************************)
NumAdminCalls == 2       \* calls made in one behaviour

AdminCalls == 1..NumAdminCalls
\* the sensor the registry starts with and one object per call
InstIds == 1..(NumAdminCalls + 1)
NoInst == 0

\* the configurations given to add_sensor, or resulting from the merge of
\* update_sensor
AdminConfigs == {c \in FactoryConfigs : c.type = "http" /\ c.custom_class = "none"}

\* the configuration of the sensor the registry starts with
FirstConfig ==
    [name |-> 1, enabled |-> TRUE, type |-> "http", custom_class |-> "none",
     init_ok |-> TRUE]

\* a sensor object: st is "created", "connected" or "disconnected"; polled:
\* a _poll_sensor task runs for it
NoSensor == [name |-> 0, cfg |-> FirstConfig, st |-> "free", polled |-> FALSE]

\* a call: old is the object the registry held under the name when
\* update_sensor was entered, inst the object the call works on
NoAdminCall ==
    [op |-> "idle", name |-> 0, cfg |-> FirstConfig, pc |-> "idle",
     old |-> NoInst, inst |-> NoInst, ret |-> "none"]

\* impl: "BL" or "SMS"; mongo: mongo_client is not None; running:
\* BusinessLogic._running; sensors: self.sensors; polling_tasks: the object
\* whose task self._polling_tasks holds under the name
RegNew(kind, mongo, is_running) ==
    [impl |-> kind, mongo |-> mongo, running |-> is_running,
     sensors |-> [n \in SensorNames |-> IF n = 1 THEN 1 ELSE NoInst],
     polling_tasks |-> [n \in SensorNames |->
                          IF n = 1 /\ kind = "BL" /\ is_running THEN 1 ELSE NoInst],
     insts |-> [i \in InstIds |->
                  IF i = 1
                  THEN [name |-> 1, cfg |-> FirstConfig, st |-> "connected",
                        polled |-> kind = "BL" /\ is_running]
                  ELSE NoSensor],
     calls |-> [c \in AdminCalls |-> NoAdminCall]]

AdminIdle == reg = RegNew("SMS", FALSE, FALSE)

\* a registry holding sensor 1, connected, and polled when BusinessLogic runs
\* its polling
AdminInit ==
    reg \in {RegNew(k, m, r) : k \in {"BL", "SMS"}, m \in BOOLEAN, r \in BOOLEAN}

\* call c returns value
AdminReturned(r, c, value) ==
    [r EXCEPT !.calls[c] = [@ EXCEPT !.pc = "done", !.ret = value]]

\* add_sensor from sensor = SensorFactory.create_sensor(sensor_config): an
\* exception of it is caught and the call returns False; otherwise the new
\* sensor is stored under its name, whatever the registry holds there, and
\* the call waits for sensor.connect()
add_sensor_create(r, c) ==
    LET call == r.calls[c]
        i == MinOf({j \in InstIds : r.insts[j].st = "free"})
    IN  IF ~create_sensor(call.cfg)
        THEN AdminReturned(r, c, "False")
        ELSE [r EXCEPT
                !.insts[i] = [name |-> call.name, cfg |-> call.cfg,
                              st |-> "created", polled |-> FALSE],
                !.sensors[call.name] = i,
                !.calls[c] = [call EXCEPT !.pc = "connect", !.inst = i]]

\* add_sensor(config) from its entry: a name that is in the registry is
\* refused; with a mongo_client the call waits for save_sensor_config,
\* without one it goes on to create the sensor
add_sensor(r, c) ==
    IF r.sensors[r.calls[c].name] # NoInst
    THEN AdminReturned(r, c, "False")
    ELSE IF r.mongo
    THEN [r EXCEPT !.calls[c] = [@ EXCEPT !.pc = "save"]]
    ELSE add_sensor_create(r, c)

\* a call of add_sensor
AddSensorBegin(c, cfg) ==
    /\ reg.calls[c].op = "idle"
    /\ reg' = add_sensor([reg EXCEPT !.calls[c] =
                             [NoAdminCall EXCEPT !.op = "add_sensor",
                                                 !.name = cfg.name,
                                                 !.cfg = cfg]], c)
    /\ UNCHANGED <<wsd, tm, pl>> /\ ExtFrame

\* add_sensor after save_sensor_config, an exception of which is caught with
\* the call returning False
AddSensorSaved(c, save_ok) ==
    /\ reg.calls[c].op \in {"add_sensor", "update_sensor"}
    /\ reg.calls[c].pc = "save"
    /\ reg' = IF save_ok THEN add_sensor_create(reg, c)
              ELSE AdminReturned(reg, c, "False")
    /\ UNCHANGED <<wsd, tm, pl>> /\ ExtFrame

\* add_sensor after sensor.connect(): BusinessLogic creates the polling task
\* of the new sensor when its polling runs and stores it under the name;
\* return True
AddSensorConnected(c, connected) ==
    LET call == reg.calls[c]
        i == call.inst
        spawn == reg.impl = "BL" /\ reg.running
    IN  /\ call.op \in {"add_sensor", "update_sensor"} /\ call.pc = "connect"
        /\ reg' = AdminReturned(
                     [reg EXCEPT
                        !.insts[i] = [@ EXCEPT
                                        !.st = IF connected THEN "connected" ELSE @,
                                        !.polled = spawn],
                        !.polling_tasks[call.name] = IF spawn THEN i ELSE @],
                     c, "True")
        /\ UNCHANGED <<wsd, tm, pl>> /\ ExtFrame

\* remove_sensor(name) inside update_sensor, from sensor = self.sensors[name]:
\* KeyError, caught, when the name is gone, and update_sensor goes on to
\* add_sensor; otherwise the wait for sensor.disconnect()
remove_takes_sensor(r, c) ==
    LET call == r.calls[c]
    IN  IF r.sensors[call.name] = NoInst
        THEN add_sensor(r, c)
        ELSE [r EXCEPT !.calls[c] =
                 [call EXCEPT !.pc = "disconnect", !.inst = r.sensors[call.name]]]

\* update_sensor(name, updates) to its first await: a name that is not in
\* the registry, or a merged configuration that SensorConfig rejects, ends
\* the call with False; otherwise remove_sensor starts: BusinessLogic
\* cancels and gathers the polling task of the name, then the sensor is
\* disconnected
UpdateSensorBegin(c, cfg, valid) ==
    LET name == cfg.name
        r == [reg EXCEPT !.calls[c] =
                 [NoAdminCall EXCEPT !.op = "update_sensor", !.name = name,
                                     !.cfg = cfg, !.old = reg.sensors[name]]]
    IN  /\ reg.calls[c].op = "idle"
        /\ reg' = IF reg.sensors[name] = NoInst \/ ~valid
                  THEN AdminReturned(r, c, "False")
                  ELSE IF reg.impl = "BL" /\ reg.polling_tasks[name] # NoInst
                  THEN [r EXCEPT !.calls[c] =
                           [@ EXCEPT !.pc = "gather",
                                     !.inst = reg.polling_tasks[name]]]
                  ELSE remove_takes_sensor(r, c)
        /\ UNCHANGED <<wsd, tm, pl>> /\ ExtFrame

\* BusinessLogic.remove_sensor after the gather: the cancelled task has
\* ended; del self._polling_tasks[name] (KeyError, caught, when the entry is
\* gone), then the sensor is taken from the registry
UpdateSensorGathered(c) ==
    LET call == reg.calls[c]
        name == call.name
        r == [reg EXCEPT !.insts[call.inst] = [@ EXCEPT !.polled = FALSE],
                         !.polling_tasks[name] = NoInst]
    IN  /\ call.op = "update_sensor" /\ call.pc = "gather"
        /\ reg' = IF reg.polling_tasks[name] = NoInst
                  THEN add_sensor(r, c)
                  ELSE remove_takes_sensor(r, c)
        /\ UNCHANGED <<wsd, tm, pl>> /\ ExtFrame

\* remove_sensor after sensor.disconnect(): an exception of it is caught and
\* remove_sensor returns False with the sensor still registered; otherwise
\* del self.sensors[name] (KeyError, caught, when the name is gone) and,
\* with a mongo_client, the wait for delete_sensor_config.  update_sensor
\* ignores the result of remove_sensor and goes on to add_sensor
UpdateSensorDisconnected(c, outcome) ==
    LET call == reg.calls[c]
        name == call.name
        r == [reg EXCEPT !.insts[call.inst] = [@ EXCEPT !.st = "disconnected"],
                         !.sensors[name] = NoInst]
    IN  /\ call.op = "update_sensor" /\ call.pc = "disconnect"
        /\ reg' = IF outcome = "raises" THEN add_sensor(reg, c)
                  ELSE IF reg.sensors[name] = NoInst \/ ~reg.mongo
                  THEN add_sensor(r, c)
                  ELSE [r EXCEPT !.calls[c] = [@ EXCEPT !.pc = "delete_config"]]
        /\ UNCHANGED <<wsd, tm, pl>> /\ ExtFrame

\* remove_sensor after delete_sensor_config, whose exception is caught:
\* update_sensor calls add_sensor(new_config)
UpdateSensorRemoved(c) ==
    /\ reg.calls[c].op = "update_sensor" /\ reg.calls[c].pc = "delete_config"
    /\ reg' = add_sensor(reg, c)
    /\ UNCHANGED <<wsd, tm, pl>> /\ ExtFrame

AdminNext ==
    \/ \E c \in AdminCalls, cfg \in AdminConfigs : AddSensorBegin(c, cfg)
    \/ \E c \in AdminCalls, save_ok \in BOOLEAN : AddSensorSaved(c, save_ok)
    \/ \E c \in AdminCalls, connected \in BOOLEAN : AddSensorConnected(c, connected)
    \/ \E c \in AdminCalls, cfg \in AdminConfigs, valid \in BOOLEAN :
          UpdateSensorBegin(c, cfg, valid)
    \/ \E c \in AdminCalls : UpdateSensorGathered(c)
    \/ \E c \in AdminCalls, outcome \in CallOutcomes :
          UpdateSensorDisconnected(c, outcome)
    \/ \E c \in AdminCalls : UpdateSensorRemoved(c)

(***************************************************************************)
(* Specifications                                                          *)
(***************************************************************************)
\* what the subsystems of this part are when they are not exercised
AuxIdle ==
    /\ HookIdle
    /\ FactoryIdle
    /\ ActionIdle

ExtIdle ==
    /\ WsDataInit
    /\ MatchIdle
    /\ LoopIdle
    /\ AdminIdle

WsIdle == ws = [n \in SensorNames |-> WsNew(NoPort)]

PollIdle ==
    /\ impl = "BL"
    /\ configs = [n \in SensorNames |-> [interval |-> 5, proto |-> "HTTPProtocol"]]
    /\ objs = [o \in ObjIds |-> [name |-> 0, enabled |-> FALSE]]
    /\ sensors = [n \in SensorNames |-> NoObj]
    /\ polling_tasks = [n \in SensorNames |-> NoTask]
    /\ running = FALSE
    /\ started = FALSE
    /\ tasks = [t \in TaskIds |-> FreeTask]
    /\ calls = [c \in CallIds |-> IdleCall]
    /\ removed_ok = {}
    /\ sched_ret = NoSchedCall

MqttIdle ==
    /\ topic_status = [n \in SensorNames |-> <<"a", "a">>]
    /\ mq = [n \in SensorNames |-> MqNew]
    /\ client_entered = FALSE
    /\ mqtt_lock = 0
    /\ inbox = <<>>
    /\ published = 0

\* the MQTT instances over the shared client
InitMqtt == PortInit /\ WsIdle /\ PollIdle /\ MqttInit /\ RetInit /\ ReadIdle /\ RamIdle
    /\ AuxIdle /\ ExtIdle
SpecMqtt == InitMqtt /\ [][MqttNext]_vars

\* the MQTT instances, all on the same wildcard topic, with the manual
\* connect route
MqttRouteInit ==
    /\ topic_status = [n \in SensorNames |-> <<"a", "+">>]
    /\ mq = [n \in SensorNames |-> MqNew]
    /\ client_entered = FALSE
    /\ mqtt_lock = 0
    /\ inbox = <<>>
    /\ published = 0

InitMqttRoute == PortInit /\ WsIdle /\ PollIdle /\ MqttRouteInit /\ RetInit /\ ReadIdle /\ RamIdle
    /\ AuxIdle /\ ExtIdle
SpecMqttRoute == InitMqttRoute /\ [][MqttRouteNext]_vars

\* the RAM state of one MQTT instance
InitRam == PortInit /\ WsIdle /\ PollIdle /\ MqttIdle /\ RetInit /\ ReadIdle /\ RamInit
    /\ AuxIdle /\ ExtIdle
SpecRam == InitRam /\ [][RamNext]_vars

\* the retention store
InitRetention == PortInit /\ WsIdle /\ PollIdle /\ MqttIdle /\ RetInit /\ ReadIdle /\ RamIdle
    /\ AuxIdle /\ ExtIdle
SpecRetention == InitRetention /\ [][RetNext]_vars

\* the read paths
InitRead == PortInit /\ WsIdle /\ PollIdle /\ MqttIdle /\ RetInit /\ ReadInit /\ RamIdle
    /\ AuxIdle /\ ExtIdle
SpecRead == InitRead /\ [][ReadNext]_vars

\* the allocator called directly
InitPort == PortInit /\ WsIdle /\ PollIdle /\ MqttIdle /\ RetInit /\ ReadIdle /\ RamIdle
    /\ AuxIdle /\ ExtIdle
SpecPort == InitPort /\ [][PortNext]_vars

\* the WebSocket listeners beside another name that takes and releases ports
\* of the same allocator
WsHeldNext ==
    \/ WsNext
    \/ \E n \in PortNames \ SensorNames, r \in PortRange : AssignPort(n, r)
    \/ \E n \in PortNames \ SensorNames : ReleasePort(n)

\* every WebSocket sensor is configured without a port
WsAutoInit == ws = [n \in SensorNames |-> WsNew(NoPort)]

InitWsHeld == PortInit /\ WsAutoInit /\ PollIdle /\ MqttIdle /\ RetInit /\ ReadIdle /\ RamIdle
    /\ AuxIdle /\ ExtIdle
SpecWsHeld == InitWsHeld /\ [][WsHeldNext]_vars

\* the listeners with the calls on one protocol made one after the other: a
\* connect() or disconnect() starts when no call on the protocol is running
WsSeqNext ==
    \/ \E n \in SensorNames : ws[n].dpc = "idle" /\ WsConnectBegin(n)
    \/ \E n \in SensorNames : WsConnectEnd(n)
    \/ \E n \in SensorNames : WsServerStart(n)
    \/ \E n \in SensorNames : WsServerCancelled(n)
    \/ \E n \in SensorNames, c \in Clients : WsClientAttach(n, c)
    \/ \E n \in SensorNames, c \in Clients : WsClientDetach(n, c)
    \/ \E n \in SensorNames : ws[n].cpc = "idle" /\ WsDisconnectBegin(n)
    \/ \E n \in SensorNames : WsDisconnectStep(n)
    \/ \E p \in PortRange : OsBind(p)
    \/ \E p \in PortRange : OsFree(p)

InitWsSeq == PortInit /\ WsInit /\ PollIdle /\ MqttIdle /\ RetInit /\ ReadIdle /\ RamIdle
    /\ AuxIdle /\ ExtIdle
SpecWsSeq == InitWsSeq /\ [][WsSeqNext]_vars

\* the ingestion paths with an automation service that may raise
InitHook == PortInit /\ WsIdle /\ PollIdle /\ MqttIdle /\ RetInit /\ ReadIdle /\ RamIdle
    /\ HookInit /\ FactoryIdle /\ ActionIdle /\ ExtIdle
SpecHook == InitHook /\ [][HookNext]_vars

\* the factory over the lists of configurations
InitFactory == PortInit /\ WsIdle /\ PollIdle /\ MqttIdle /\ RetInit /\ ReadIdle /\ RamIdle
    /\ HookIdle /\ FactoryInit /\ ActionIdle /\ ExtIdle
SpecFactory == InitFactory /\ [][FactoryNext]_vars

\* the calls of execute_sensor_action
InitAction == PortInit /\ WsIdle /\ PollIdle /\ MqttIdle /\ RetInit /\ ReadIdle /\ RamIdle
    /\ HookIdle /\ FactoryIdle /\ ActionInit /\ ExtIdle
SpecAction == InitAction /\ [][ActionNext]_vars

\* the RAM state of an MQTT sensor and its periodic saving
SpecFlush == InitRam /\ [][FlushNext]_vars

\* the retained value of the WebSocket listeners
InitWsData == PortInit /\ WsIdle /\ PollIdle /\ MqttIdle /\ RetInit /\ ReadIdle /\ RamIdle
    /\ AuxIdle /\ WsDataInit /\ MatchIdle /\ LoopIdle /\ AdminIdle
SpecWsData == InitWsData /\ [][WsDataNext]_vars

\* topic matching
InitMatch == PortInit /\ WsIdle /\ PollIdle /\ MqttIdle /\ RetInit /\ ReadIdle /\ RamIdle
    /\ AuxIdle /\ WsDataInit /\ MatchInit /\ LoopIdle /\ AdminIdle
SpecMatch == InitMatch /\ [][MatchNext]_vars

\* one polling loop, await by await
InitLoop == PortInit /\ WsIdle /\ PollIdle /\ MqttIdle /\ RetInit /\ ReadIdle /\ RamIdle
    /\ AuxIdle /\ WsDataInit /\ MatchIdle /\ LoopInit /\ AdminIdle
SpecLoop == InitLoop /\ [][LoopNext]_vars

\* add_sensor and update_sensor with several calls in flight
InitAdmin == PortInit /\ WsIdle /\ PollIdle /\ MqttIdle /\ RetInit /\ ReadIdle /\ RamIdle
    /\ AuxIdle /\ WsDataInit /\ MatchIdle /\ LoopIdle /\ AdminInit
SpecAdmin == InitAdmin /\ [][AdminNext]_vars

\* the WebSocket listeners over the allocator
InitWs == PortInit /\ WsInit /\ PollIdle /\ MqttIdle /\ RetInit /\ ReadIdle /\ RamIdle
    /\ AuxIdle /\ ExtIdle
SpecWs == InitWs /\ [][WsNext]_vars

\* the polling scheduler under enable / disable requests
InitSched == PortInit /\ WsIdle /\ PollInit /\ MqttIdle /\ RetInit /\ ReadIdle /\ RamIdle
    /\ AuxIdle /\ ExtIdle
SpecSched == InitSched /\ [][SchedNext]_vars

\* the registry at application start: one configured sensor, polled by
\* either scheduler; the other name is free for add_sensor
RegistryInit ==
    /\ impl \in {"BL", "SPS"}
    /\ configs = [n \in SensorNames |-> [interval |-> 5, proto |-> "HTTPProtocol"]]
    /\ objs = [o \in ObjIds |->
                 IF o = 1 THEN [name |-> 1, enabled |-> TRUE]
                 ELSE [name |-> 0, enabled |-> FALSE]]
    /\ sensors = [n \in SensorNames |-> IF n = 1 THEN 1 ELSE NoObj]
    /\ polling_tasks = [n \in SensorNames |-> NoTask]
    /\ running = FALSE
    /\ started = FALSE
    /\ tasks = [t \in TaskIds |-> FreeTask]
    /\ calls = [c \in CallIds |-> IdleCall]
    /\ removed_ok = {}
    /\ sched_ret = NoSchedCall

\* the registries with their schedulers
InitRegistry == PortInit /\ WsIdle /\ RegistryInit /\ MqttIdle /\ RetInit /\ ReadIdle /\ RamIdle
    /\ AuxIdle /\ ExtIdle
SpecRegistry == InitRegistry /\ [][RegistryNext]_vars

(***************************************************************************)
(* Claims                                                                  *)
(***************************************************************************)

\* the ports held according to the sensor -> port map
HeldPorts == {sensor_ports[n] : n \in PortNames} \ {NoPort}

\* C3: after any sequence of assign_port and release_port calls no port is
\* held by two sensor names (the sensor -> port map is injective) and the
\* used-port set is exactly the set of ports appearing in the map.
C3_NoPortHeldTwice ==
    /\ \A a, b \in PortNames :
          (a # b /\ sensor_ports[a] # NoPort) => sensor_ports[a] # sensor_ports[b]
    /\ used_ports = HeldPorts

\* every sensor holds a port, the last one taken by an explicit request made
\* while another sensor already held a port
C3_Witness ==
    /\ pm_ret.op = "assign" /\ pm_ret.ok /\ pm_ret.req # NoPort
    /\ \A n \in SensorNames : sensor_ports[n] # NoPort

\* C6: when the listener task cannot bind its port (OSError), the port is
\* released in the PortManager and connect() reports the failure: it returns
\* false and the protocol ends with connected = false.
C6_BindFailureReported ==
    \A n \in SensorNames :
        (ws[n].bind_failed /\ ws[n].cpc = "idle") =>
            /\ sensor_ports[n] = NoPort
            /\ ws[n].ret = "false"
            /\ ~ws[n].connected

\* C8: once remove_sensor(name) has returned true, no polling task is still
\* reading the removed sensor: no active polling task belongs to a sensor
\* object whose removal has returned true.
C8_NoTaskOfRemovedSensor ==
    \A t \in ActiveTasks : tasks[t].obj \notin removed_ok

\* the polling tasks of sensor name n that were spawned and have not ended
ActiveTasksOf(n) == {t \in ActiveTasks : tasks[t].name = n}

\* C4: under any interleaving of enable / disable requests for a sensor
\* while the scheduler runs, at most one polling task of that sensor name is
\* active (spawned and not yet terminated) at any time.
C4_OneActiveTaskPerSensor ==
    \A n \in SensorNames : Cardinality(ActiveTasksOf(n)) <= 1

\* C9: when an operation that stops the polling of a sensor returns (the
\* entry of the sensor leaves the task table), the polling task has
\* terminated.
C9_StopAwaitsTermination ==
    [][\A n \in SensorNames :
          (polling_tasks[n] # NoTask /\ polling_tasks'[n] = NoTask)
             => TaskTerminated(tasks'[polling_tasks[n]])]_vars

\* a step in which polling task t, of a sensor with a positive poll
\* interval, ends
TaskEnds(t) ==
    /\ TaskActive(tasks[t])
    /\ TaskTerminated(tasks'[t])
    /\ configs[tasks[t].name].interval > 0

C2_OpenWhileAnySensorConnected ==
    \A n \in SensorNames : mq[n].session => client_entered

\* C5: every message that arrived for a sensor in a session (its status
\* topic matches) and has left the shared queue has been applied by that
\* sensor, whichever receive loop took it.
C5_EveryRecipientApplies ==
    \A n \in SensorNames :
        mq[n].session =>
            \A id \in mq[n].owed :
                (\A i \in 1..Len(inbox) : inbox[i].id # id) => id \in mq[n].applied

\* C1: in retention archival a record older than the horizon leaves the live
\* store only with the export file of its (sensor, day) written and holding
\* it; when the export of a day fails, that day's records stay in the store.
C1_DeletedOnlyWhenExported ==
    [][\A r \in store \ store' :
          /\ files'[<<r.sensor, Day(r.ts)>>].written
          /\ r.ts \in files'[<<r.sensor, Day(r.ts)>>].data]_vars

\* a reading taken while the transport failed: an HTTP request that did not
\* give status 200 with a JSON body, a WebSocket sensor that pushed nothing
\* yet, an MQTT state that is missing or older than the liveness window
TransportFailure(r) ==
    \/ r.proto = "http" /\ r.reply # "200_json"
    \/ r.proto = "websocket" /\ ~r.has_data
    \/ r.proto = "mqtt" /\ (~r.has_data \/ r.age > LivenessWindow)

\* C7: read_data returns every transport failure, for each protocol and at
\* the sensor level, as a reading with status "error" and a non-null error.
C7_FailureReadsAsError ==
    \A n \in SensorNames :
        (reading[n].status # "none" /\ TransportFailure(reading[n])) =>
            (reading[n].status = "error" /\ reading[n].error # "None")

\* C11: while the scheduler runs, start_sensor_polling(name, sensor) for an
\* enabled sensor with a positive poll interval leaves an active polling
\* loop of that sensor (a task that is not terminated and not cancelled),
\* also when the sensor had been disabled earlier; stop_sensor_polling
\* cancels the task of the sensor and removes it from the task table.
C11_StartLeavesLoop_StopRemoves ==
    \A n \in SensorNames :
        /\ ( /\ sched_ret = [op |-> "start_sensor_polling", name |-> n]
             /\ running
             /\ objs[sensors[n]].enabled
             /\ configs[n].interval > 0 )
           => \E t \in ActiveTasksOf(n) : ~tasks[t].cancel
        /\ sched_ret = [op |-> "stop_sensor_polling", name |-> n]
           => /\ polling_tasks[n] = NoTask
              /\ \A t \in ActiveTasksOf(n) : tasks[t].cancel

\* C12: a polling task of SensorPollingService issues read_data only for a
\* sensor that is enabled, has a positive poll interval and does not use the
\* MQTT protocol, whether the task came from start_polling or from
\* start_sensor_polling.
C12_ReadsOnlyPullSensors ==
    [][\A t \in TaskIds :
          (impl = "SPS" /\ tasks[t].st # "reading" /\ tasks'[t].st = "reading")
             => /\ objs'[tasks'[t].obj].enabled
                /\ configs[tasks'[t].name].interval > 0
                /\ configs[tasks'[t].name].proto # "MQTTProtocol"]_vars

\* C13: connect() called again without a disconnect() in between creates no
\* additional resource: an MQTT instance never has a message-loop or
\* periodic-save task running beside the ones it refers to, and it never
\* holds more than one unit of the connected-sensors count.
C13_ConnectAgainAddsNothing ==
    \A n \in SensorNames :
        /\ ~mq[n].leaked
        /\ mq[n].own_count <= 1

\* C14: when connect() calls race for the shared connection, the physical
\* open (the client goes from closed to entered) is done by a caller that
\* holds the shared mutex, once; a caller that finds the client already
\* entered goes on, and no connect() returns False while the client is open.
C14_OneOpenUnderMutex ==
    [][/\ (~client_entered /\ client_entered') =>
             \E n \in SensorNames :
                 /\ mqtt_lock = n /\ mq[n].pc = "open"
                 /\ mq'[n].pc = "subscribe"
                 /\ \A k \in SensorNames \ {n} : mq'[k] = mq[k]
       /\ \A n \in SensorNames :
             (mq[n].pc # "idle" /\ mq'[n].pc = "idle" /\ mq'[n].ret = "false")
                => ~client_entered]_vars

\* two connect() calls overlap: both are past the open and about to return
\* True, over one entered client
C14_Witness ==
    /\ client_entered
    /\ \A n \in SensorNames : mq[n].pc = "count"

\* the RAM state holds data that is at most 120 s old
RamFresh ==
    /\ ram.state # EmptyDict
    /\ ram.timestamp # NoTime
    /\ now - ram.timestamp <= LivenessWindow

\* C15: MQTTProtocol.read_data returns the current RAM state with status
\* "ok" when the state holds data whose timestamp is at most 120 s old;
\* otherwise (no data yet, or last message more than 120 s ago) it returns
\* status "error" with empty data and sets connected = false.
C15_StaleReadsAsError ==
    ram_ev.ev = "read" =>
        IF RamFresh
        THEN ram_out.status = "ok" /\ ram_out.data = ram.state
        ELSE /\ ram_out.status = "error"
             /\ ram_out.data = EmptyDict
             /\ ~ram.connected

\* read_data has just found a state that was fresh earlier and is now more
\* than 120 s old
C15_Witness ==
    /\ ram_ev.ev = "read"
    /\ ram.state # EmptyDict
    /\ now - ram.timestamp > LivenessWindow
    /\ ram_out.status = "error"

\* C16: after staleness has set connected to false, a fresh message matching
\* the status topic restores connected = true: an instance that has just
\* stored a message is connected.
C16_FreshMessageReconnects ==
    ram_ev.ev = "applied" => ram.connected

\* C17: for a wildcard status topic the RAM state maps each trailing topic
\* segment to the payload of the most recent message stored for it, and a
\* message for one key leaves the value of every other key alone.
C17_LatestPerTrailingKey ==
    is_wildcard_topic(ram_topic) => ram.state = latest

\* a step of _message_loop on a retained message
RetainedStep == ram_ev'.retained /\ ram_ev'.ev \in {"applied", "discarded", "skipped"}

\* C18: a retained message is applied only if the RAM state is empty or
\* last_update is within the freshness threshold; one that arrives when the
\* state is not empty and last_update is older than the threshold is
\* discarded: RAM state, its timestamp and last_update stay as they were.
C18_StaleRetainedDiscarded ==
    [][RetainedStep =>
          /\ ram_ev'.ev = "applied" =>
                \/ ram.state = EmptyDict
                \/ ram.last_update # NoTime /\ now - ram.last_update <= RetainedWindow
          /\ (ram.state # EmptyDict /\ now - ram.last_update > RetainedWindow) =>
                /\ ram_ev'.ev = "discarded"
                /\ ram' = ram]_vars

\* a retained message has just been discarded by an instance whose state is
\* not empty
C18_Witness ==
    /\ ram_ev = [ev |-> "discarded", retained |-> TRUE]
    /\ ram.state # EmptyDict
    /\ now - ram.last_update > RetainedWindow

\* C19: when every port of the range is held and a WebSocket sensor without
\* an explicit port calls connect(), connect() fails (it returns false with
\* connected = false) and the used-port set and the sensor -> port map of
\* the PortManager are as before the call.
C19_NoPortLeftConnectFails ==
    [][\A n \in SensorNames :
          ( /\ WsConnectBegin(n)
            /\ TaskFinished(ws[n]) /\ ws[n].port = NoPort
            /\ ws[n].requested = NoPort
            /\ PortRange \subseteq used_ports )
          => /\ ws'[n].ret = "false"
             /\ ~ws'[n].connected
             /\ ws'[n].cpc = "idle"
             /\ used_ports' = used_ports
             /\ sensor_ports' = sensor_ports]_vars

\* a sensor without an explicit port has been refused by connect() while the
\* other names hold the whole range
C19_Witness ==
    \E n \in SensorNames :
        /\ ws[n].requested = NoPort /\ ws[n].ret = "false"
        /\ ~ws[n].connected /\ ~ws[n].bind_failed /\ ws[n].task = "none"
        /\ sensor_ports[n] = NoPort
        /\ used_ports = PortRange

\* C20: assign_port(name, None) returns the lowest port of the range that no
\* other name holds and that passes the OS bind probe, and fails only when
\* there is no such port: so a full range refuses one more name, and after a
\* release the next automatic assignment returns the freed port.
C20_LowestFreePort ==
    \A n \in PortNames :
        LET r == assign_port(used_ports, sensor_ports, os_busy, n, NoPort)
            avail == {p \in PortRange :
                        /\ p \notin used_ports \ {sensor_ports[n]}
                        /\ p \notin os_busy}
        IN  IF avail = {} THEN ~r.ok
            ELSE /\ r.ok
                 /\ r.port \in avail
                 /\ \A q \in avail : r.port <= q
                 /\ r.map[n] = r.port
                 /\ r.port \in r.used

\* the names that hold no port
Portless == {n \in PortNames : sensor_ports[n] = NoPort}

\* one name more than the range has ports has just been refused by an
\* automatic assignment, no port being bound by another process
C20_Witness ==
    /\ pm_ret.op = "assign" /\ pm_ret.req = NoPort /\ ~pm_ret.ok
    /\ pm_ret.name \in Portless
    /\ os_busy = {}
    /\ used_ports = PortRange

\* C21: assign_port(name, p) with an explicitly requested port p succeeds and
\* records p for name exactly when no other name holds p and p passes the OS
\* bind probe; otherwise it fails and the holder of p is as before the call.
C21_ExplicitRequest ==
    \A n \in PortNames, p \in RequestablePorts :
        LET r == assign_port(used_ports, sensor_ports, os_busy, n, p)
            free == /\ \A m \in PortNames \ {n} : sensor_ports[m] # p
                    /\ _check_port_free(os_busy, p)
        IN  IF free
            THEN /\ r.ok /\ r.port = p
                 /\ r.map[n] = p
                 /\ p \in r.used
            ELSE /\ ~r.ok
                 /\ \A m \in PortNames : (r.map[m] = p) <=> (sensor_ports[m] = p)

\* C22: when assign_port is called for a name that already holds a port, the
\* port held before is released first: after the call, failed or not, the
\* name holds at most one port, every used port is the port of some name, and
\* the old port, unless this call assigned it again, is no longer used.
C22_ReassignLeaksNothing ==
    \A n \in PortNames, req \in RequestablePorts \cup {NoPort} :
        sensor_ports[n] # NoPort =>
            LET r == assign_port(used_ports, sensor_ports, os_busy, n, req)
                old == sensor_ports[n]
                others == {sensor_ports[m] : m \in PortNames \ {n}} \ {NoPort}
            IN  /\ r.used \ others \subseteq {r.map[n]}
                /\ r.map[n] # old => old \notin r.used
                /\ r.ok <=> r.map[n] # NoPort
                /\ \A m \in PortNames \ {n} : r.map[m] = sensor_ports[m]

\* a name that held a port has just been given a different one, and the port
\* it held before is free again
C22_Witness ==
    /\ pm_ret.op = "assign" /\ pm_ret.ok
    /\ pm_ret.old # NoPort /\ pm_ret.old # pm_ret.port
    /\ sensor_ports[pm_ret.name] = pm_ret.port
    /\ pm_ret.old \notin used_ports

\* C23: assign_port runs without a suspension point, so the check and the
\* reservation of a port are one step: when two WebSocket sensors without an
\* explicit port connect concurrently, the ports their calls returned are
\* different, and each is the port the PortManager records for its sensor.
C23_ConcurrentConnectsDistinctPorts ==
    \A a, b \in SensorNames :
        ( /\ a # b
          /\ ws[a].requested = NoPort /\ ws[b].requested = NoPort
          /\ ws[a].port # NoPort /\ ws[b].port # NoPort )
        => /\ ws[a].port # ws[b].port
           /\ sensor_ports[a] = ws[a].port
           /\ sensor_ports[b] = ws[b].port

\* the connect() calls of two sensors without an explicit port are both
\* suspended in their sleep, each after its assign_port
C23_Witness ==
    \A n \in SensorNames :
        /\ ws[n].requested = NoPort
        /\ ws[n].cpc = "sleep"
        /\ ws[n].port # NoPort

\* C24: a cleanup_old_data in which no export fails writes, for every sensor
\* and every calendar day on which the sensor has a record older than the
\* horizon, one file holding that day's records of the sensor, and writes no
\* other file; afterwards the live store holds no record older than the
\* horizon and every record that is not older.
C24_OneFilePerOldDay ==
    [][CleanupOldData({}) =>
          /\ \A s \in SensorNames, d \in Days :
                LET recs == {r \in store : r.sensor = s /\ Day(r.ts) = d}
                IN  IF \E r \in recs : r.ts < clock - Horizon
                    THEN /\ files'[<<s, d>>].written
                         /\ files'[<<s, d>>].data = {r.ts : r \in recs}
                    ELSE files'[<<s, d>>] = files[<<s, d>>]
          /\ store' = {r \in store : r.ts >= clock - Horizon}]_vars

\* C25: is_connected() returns true only in states where the listener task
\* exists and has not finished and at least one client is in the
\* connected-clients set.
C25_ConnectedOnlyWithTaskAndClient ==
    \A n \in SensorNames :
        is_connected(ws[n]) =>
            /\ ~TaskFinished(ws[n])
            /\ ws[n].clients # {}

\* is_connected() is true for a listener, and false for one that is flagged
\* connected and serving but has no client
C25_Witness ==
    \E a, b \in SensorNames :
        /\ is_connected(ws[a])
        /\ ws[b].connected /\ ws[b].task = "serving" /\ ws[b].clients = {}
        /\ ~is_connected(ws[b])

\* a step of disconnect() of sensor n
DisconnectRuns(n) == WsDisconnectBegin(n) \/ WsDisconnectStep(n)

SameButHook(a, b) == [a EXCEPT !.hook = "none"] = [b EXCEPT !.hook = "none"]

\* this step has called the hook on path p
HookRan(p) ==
    \/ ingest'[p].taken # ingest[p].taken
    \/ ingest'[p].pending < ingest[p].pending

\* C27: an exception raised by on_sensor_data never breaks ingestion: in the
\* polling loop, in the WebSocket client handler and in the MQTT message
\* path the loop is alive after the hook raised, what is recorded is what
\* would be recorded had the hook returned (the reading saved, the message
\* kept as _last_data, the RAM state updated before the hook runs), and the
\* loop takes the next reading or message.
C27_HookExceptionCaught ==
    [][\A p \in Paths :
          /\ (ingest'[p].hook = "raises" /\ HookRan(p)) =>
                /\ ingest'[p].alive
                /\ CASE p = "poll" ->
                          \E save_ok \in BOOLEAN :
                             SameButHook(ingest'[p],
                                 HookCalled(Taken(ingest[p], save_ok), TRUE, "returns"))
                     [] p = "ws" ->
                          /\ SameButHook(ingest'[p],
                                 HookCalled(Taken(ingest[p], TRUE), TRUE, "returns"))
                          /\ ingest'[p].recorded = ingest[p].recorded + 1
                     [] p = "mqtt" ->
                          /\ SameButHook(ingest'[p],
                                 HookCalled([ingest[p] EXCEPT !.pending = @ - 1],
                                            TRUE, "returns"))
                          /\ ingest'[p].recorded = ingest[p].recorded
                          /\ ingest[p].recorded > 0
          /\ (ingest[p].hook = "raises" /\ ingest[p].alive
              /\ ingest[p].taken < MaxReadings) =>
                CASE p = "poll" -> ENABLED PollIteration(TRUE, "returns")
                  [] p = "ws" -> ENABLED WsHandleMessage(TRUE, "returns")
                  [] p = "mqtt" -> ENABLED MqHandleMessage(TRUE)]_vars

\* on every path the hook has raised for a reading that was recorded, and
\* the loop has gone on to record the next one
C27_Witness ==
    /\ automation
    /\ \A p \in Paths :
          /\ ingest[p].taken = MaxReadings
          /\ ingest[p].recorded = MaxReadings
          /\ ingest[p].hook = "raises"
          /\ ingest[p].alive

\* the last configuration of the list that has the name and for which
\* create_sensor returns a sensor, 0 when there is none
LastGood(cfgs, n) ==
    LET good == {i \in 1..Len(cfgs) : cfgs[i].name = n /\ create_sensor(cfgs[i])}
    IN  IF good = {} THEN 0 ELSE CHOOSE i \in good : \A j \in good : j <= i

\* C28: create_sensors_from_configs never raises because of a bad
\* configuration: construction is attempted for every configuration of the
\* list, in order, and the result holds under each name the sensor of the
\* last configuration of that name whose construction succeeded, and nothing
\* for a name whose constructions all failed.
C28_BadConfigSkipped ==
    factory.called =>
        /\ ~factory.raised
        /\ factory.attempted = [i \in 1..Len(factory.configs) |-> i]
        /\ \A n \in SensorNames :
              factory.sensors[n] = LastGood(factory.configs, n)

\* a list whose first configuration fails and whose last one, of another
\* name, succeeds has been given to the factory
C28_Witness ==
    /\ factory.called
    /\ Len(factory.configs) = MaxConfigs
    /\ ~create_sensor(factory.configs[1])
    /\ factory.configs[1].name # factory.configs[MaxConfigs].name
    /\ factory.sensors[factory.configs[MaxConfigs].name] = MaxConfigs
    /\ factory.sensors[factory.configs[1].name] = 0

C30_OneWritePerInterval ==
    [][/\ flush'.writes > flush.writes =>
             /\ flush'.due < flush.due
             /\ ram' = ram
             /\ flush'.written = ram.state
             /\ ram.state # EmptyDict
       /\ flush'.writes <= 1]_vars

\* the value a message that parsed as JSON carries
ValueOf(m) == json_loads(m)

\* C31: read_data does not consume the retained value: a read_data call
\* leaves _last_data as it is and returns as data the most recent message
\* that parsed as JSON, consecutive read_data calls with no message in
\* between return the same, and a message that fails to parse leaves the
\* retained value unchanged.
C31_ReadKeepsLatestJson ==
    [][\A n \in SensorNames :
          /\ wsd'[n].reads = wsd[n].reads + 1 =>
                /\ wsd'[n].last_data = wsd[n].last_data
                /\ wsd[n].last_json # "nothing" =>
                      wsd'[n].out.data = ValueOf(wsd[n].last_json)
                /\ wsd[n].reads > 0 => wsd'[n].out = wsd[n].out
          /\ wsd'[n].ev = "not_json" => wsd'[n].last_data = wsd[n].last_data]_vars

RECURSIVE RefMatchFrom(_, _, _)
\* the reference matcher from segment i: "#" matches the whole remainder of
\* the topic, "+" exactly one segment, another segment its equal, and a
\* pattern that has ended matches when the topic has ended too
RefMatchFrom(topic, pattern, i) ==
    IF i > Len(pattern) THEN i > Len(topic)
    ELSE IF pattern[i] = "#" THEN TRUE
    ELSE IF i > Len(topic) THEN FALSE
    ELSE IF pattern[i] = "+" \/ pattern[i] = topic[i]
         THEN RefMatchFrom(topic, pattern, i + 1)
    ELSE FALSE

RefMatches(topic, pattern) == RefMatchFrom(topic, pattern, 1)

\* C32: for every topic and every status topic, _topic_matches says what the
\* reference matcher says; for a status topic without wildcard that is
\* equality of the two strings.
C32_AgreesWithReference ==
    tm.result # NoMatchCall =>
        /\ (tm.result = "True") <=> RefMatches(tm.topic, tm.pattern)
        /\ ~is_wildcard_topic(tm.pattern) =>
              ((tm.result = "True") <=> (tm.topic = tm.pattern))

\* position of a step in the order of the source text
Rank(step) == CHOOSE i \in 1..Len(StepOrder) : StepOrder[i] = step

\* the turn has made this step
Made(l, step) == \E i \in 1..Len(l.steps) : l.steps[i] = step

\* the body of the turn has been left without an exception: it is at its
\* sleep or past it
BodyOver(l) == ~l.escaped /\ (l.pc = "sleep" \/ Made(l, "sleep"))

\* C33: the steps of a turn of _poll_sensor are made in the order read_data,
\* save, automation hook, publication, sleep; a save that raised does not
\* keep the turn from the hook (when an automation service is set) nor from
\* the publication (when an MQTT client is set and the reading is "ok"); a
\* publication is made only for a reading with status "ok"; and a turn an
\* exception escaped from goes to a sleep, after which the loop, when it goes
\* on, reads again.
C33_TurnOrderAndRecovery ==
    /\ [](/\ \A i, j \in 1..Len(pl.steps) :
               i < j => Rank(pl.steps[i]) < Rank(pl.steps[j])
          /\ (pl.steps # <<>>) => pl.steps[1] = "read_data"
          /\ BodyOver(pl) /\ pl.save_failed =>
                /\ pl.auto => Made(pl, "on_sensor_data")
                /\ pl.mqtt /\ pl.status = "ok" => Made(pl, "publish_sensor_data")
          /\ Made(pl, "publish_sensor_data") => pl.status = "ok"
          /\ pl.escaped /\ pl.pc # "done" =>
                \/ pl.pc = "except_sleep" /\ pl.steps = <<"read_data">>
                \/ pl.pc = "read_data" /\ pl.steps = <<"read_data", "sleep">>)
    /\ [][pl.pc = "except_sleep" /\ pl' # pl /\ pl'.pc # "done" /\ pl'.go = pl.go =>
             /\ pl'.steps = <<"read_data", "sleep">>
             /\ pl'.pc = "read_data"
             /\ pl'.prev = "exception"]_vars
    /\ [][pl.pc = "read_data" /\ pl.prev = "exception" /\ pl'.steps # pl.steps =>
             pl'.steps = <<"read_data">>]_vars

\* a turn in which the save raised has made the hook and the publication and
\* is at its sleep, after a turn an exception escaped from
C33_Witness ==
    /\ pl.save_failed /\ pl.pc = "sleep" /\ pl.prev = "exception"
    /\ pl.steps = <<"read_data", "save_sensor_data", "on_sensor_data",
                    "publish_sensor_data">>

\* a save_sensor_data or cleanup_old_data call in which no export fails
ArchivalRun ==
    \/ \E n \in SensorNames, ts \in ReadingTimes : SaveSensorData(n, ts, {})
    \/ CleanupOldData({})

\* C34: archival loses no exported data over repeated runs: in a
\* save_sensor_data or cleanup_old_data call whose exports all succeed, every
\* reading deleted from the live store is in the export file of its (sensor,
\* day) as the call leaves it, and no export file loses a record it held
\* before the call.
C34_ExportsNeverShrink ==
    [][ArchivalRun =>
          /\ \A r \in store \ store' :
                r.ts \in files'[<<r.sensor, Day(r.ts)>>].data
          /\ \A k \in SensorNames \X Days :
                files[k].data \subseteq files'[k].data]_vars

\* C35: an assign_port call that fails, because the requested port is not
\* available or because no port of the range is free, leaves the used-port
\* set and the sensor -> port map as they were before the call; a name that
\* held a port still holds it.
C35_FailedAssignChangesNothing ==
    \A n \in PortNames, req \in RequestablePorts \cup {NoPort} :
        LET r == assign_port(used_ports, sensor_ports, os_busy, n, req)
        IN  ~r.ok => /\ r.used = used_ports
                     /\ r.map = sensor_ports

\* C40: every port held in the PortManager, assigned automatically or at an
\* explicit request, lies in the configured range port_min..port_max.
C40_HeldPortsInRange ==
    /\ used_ports \subseteq PortRange
    /\ \A n \in PortNames : sensor_ports[n] # NoPort => sensor_ports[n] \in PortRange

\* C36: whenever the listener task of a WebSocketProtocol is running and a
\* client is attached, is_connected() returns true; so after the last client
\* has gone and another one has attached, the sensor is reported connected
\* again.
C36_ServingWithClientIsConnected ==
    \A n \in SensorNames :
        ws[n].task = "serving" /\ ws[n].clients # {} => is_connected(ws[n])

\* C39: in every state of a WebSocketProtocol, also when disconnect() runs
\* while connect() is suspended in its wait for the listener, connected =
\* true implies that the listener task exists and has not finished and that
\* the protocol holds a port; with connect() and disconnect() both returned,
\* the protocol is not connected without a listener.
C39_ConnectedHasListenerAndPort ==
    \A n \in SensorNames :
        ws[n].connected =>
            /\ ~TaskFinished(ws[n])
            /\ ws[n].port # NoPort

\* C37: sensor names stay unique when add_sensor calls for the same new name
\* interleave: of two such calls at most one returns True, and no sensor
\* object is connected or polled without being the one the registry holds
\* under its name.
C37_OneAddWins ==
    /\ \A c1, c2 \in AdminCalls :
          /\ c1 # c2
          /\ reg.calls[c1].op = "add_sensor" /\ reg.calls[c2].op = "add_sensor"
          /\ reg.calls[c1].name = reg.calls[c2].name
          => ~(reg.calls[c1].ret = "True" /\ reg.calls[c2].ret = "True")
    /\ \A i \in InstIds :
          reg.insts[i].st = "connected" \/ reg.insts[i].polled
             => reg.sensors[reg.insts[i].name] = i

\* C38: update_sensor is all-or-nothing: when update_sensor(name, updates)
\* has returned False for a name that was registered, the registry holds a
\* sensor under the name and it has the configuration it had before.
C38_FailedUpdateKeepsSensor ==
    \A c \in AdminCalls :
        LET call == reg.calls[c] IN
        call.op = "update_sensor" /\ call.ret = "False" /\ call.old # NoInst =>
            /\ reg.sensors[call.name] # NoInst
            /\ reg.insts[reg.sensors[call.name]].cfg = reg.insts[call.old].cfg

====
